---- MODULE Spec2Model ----
(***************************************************************************)
(* Model of the EqMS inventory dashboard (src/pages/inventory.py,          *)
(* src/pages/parts.py): the backend tables, the batch fetchers             *)
(* get_inventory_data / get_price_data, the low-stock evaluator            *)
(* get_low_stock_items, the category aggregator                            *)
(* get_inventory_analysis_data and the add-part form of show_parts_add.    *)
(*                                                                         *)
(* A nullable column or value is the empty sequence (None) or a one        *)
(* element sequence <<v>>.  A Python dict is a function; a Python list is  *)
(* a sequence.  The category literal of the source's "other" bucket        *)
(* (Korean "gita") is written "other"; the status column's literals       *)
(* (Korean "bujok", "jeongsang") are written "short" and "normal".         *)
(***************************************************************************)
EXTENDS Integers, Sequences, FiniteSets, TLC

VARIABLES
    parts,          \* backend table parts: a sequence of rows
    inventory,      \* backend table inventory
    part_prices,    \* backend table part_prices
    next_part_id,   \* the part_id the backend gives the next inserted part
    ret,            \* the last call of an aggregation function and its result
    sess,           \* per user session: the add-part form and its handler
    suppliers,      \* backend table suppliers
    supplier_form,  \* the add-supplier form: its last submission
    page,           \* the part details page: its widgets and its last run
    session_state,  \* st.session_state of one browser session
    cache,          \* the st.cache_data entries of the aggregation functions
    now             \* the clock, in seconds

vars == << parts, inventory, part_prices, next_part_id, ret, sess,
           suppliers, supplier_form, page, session_state, cache, now >>

\* ---------------------------------------------------------------- bounds
\* Largest number of full batches in a bulk table.
MaxBatches == 2
\* Largest number of parts in an exhaustively enumerated table.
SmallParts == 2
\* Seeds of the patterned bulk tables.
MaxSeed == 2
\* Concurrent user sessions.
NumSessions == 2
\* Largest number of rows the parts table grows to.
MaxRows == 2
\* Largest quantity typed into the edit form.
MaxQuantity == 2
\* Largest number of steps of the clock.
MaxTicks == 3

\* ------------------------------------------------------ program constants
batch_size == 30
\* st.cache_data(ttl=300) and st.cache_data(ttl=3600), in seconds.
ttl_data == 300
ttl_categories == 3600

\* ---------------------------------------------------------------- helpers
None == << >>
Some(v) == << v >>
Range(s) == { s[i] : i \in DOMAIN s }
Min(a, b) == IF a < b THEN a ELSE b

\* Python's s[a:b] for 0 <= a <= b.
Slice(s, a, b) == SubSeq(s, a + 1, Min(b, Len(s)))

\* Python dict: d[k] = v, and d.get(k, dflt).
DictPut(d, k, v) == [ x \in (DOMAIN d) \cup {k} |-> IF x = k THEN v ELSE d[x] ]
DictGet(d, k, dflt) == IF k \in DOMAIN d THEN d[k] ELSE dflt

\* Python's  item.get(col, 0) or 0  on a nullable numeric column.
OrZero(v) == IF v = None THEN 0 ELSE v[1]

\* The backend's  .in_("part_id", ids)  filter: the rows of the table, in
\* table order, whose part_id is one of ids.
SelectIn(table, ids) == SelectSeq(table, LAMBDA r : r.part_id \in Range(ids))

\* The backend's  .eq("is_current", True)  filter.
SelectCurrent(table) == SelectSeq(table, LAMBDA r : r.is_current)

\* ---------------------------------------------------------- batch fetcher
\* The recursive operators below split their range in halves, so that their
\* depth stays logarithmic in the table size.

\* The last row of rows carrying part_id id (a later dict store overwrites an
\* earlier one).
LastRowOf(rows, id) ==
    LET S == { i \in DOMAIN rows : rows[i].part_id = id }
    IN rows[CHOOSE i \in S : \A j \in S : j <= i]

RowIds(rows) == { rows[i].part_id : i \in DOMAIN rows }

\* for item in inventory_result.data: inventory_data[part_id] = quantity or 0
MergeInventoryRows(d, rows) ==
    [ id \in (DOMAIN d) \cup RowIds(rows) |->
        IF id \in RowIds(rows) THEN OrZero(LastRowOf(rows, id).current_quantity)
        ELSE d[id] ]

\* for item in price_result.data: price_data[part_id] = unit_price or 0
MergePriceRows(d, rows) ==
    [ id \in (DOMAIN d) \cup RowIds(rows) |->
        IF id \in RowIds(rows) THEN OrZero(LastRowOf(rows, id).unit_price)
        ELSE d[id] ]

\* Mutant: the batch starts one element late.
BatchAt_late(part_ids, i) == Slice(part_ids, i + 1, i + batch_size)

\* The batch taken at offset i:  part_ids[i:i+batch_size].
BatchAt(part_ids, i) == Slice(part_ids, i, i + batch_size)

\* Mutant: the first failing batch query ends the loop.
RECURSIVE inventory_loop_abort(_, _, _, _)
inventory_loop_abort(part_ids, fail, i, acc) ==
    IF i >= Len(part_ids) THEN acc
    ELSE LET batch_ids == BatchAt(part_ids, i)
             raises == (Len(acc.queries) + 1) \in fail
             next == [ data    |-> IF raises THEN acc.data
                                   ELSE MergeInventoryRows(acc.data,
                                           SelectIn(inventory, batch_ids)),
                       queries |-> Append(acc.queries, batch_ids),
                       logged  |-> acc.logged + (IF raises THEN 1 ELSE 0) ]
         IN IF raises THEN next
            ELSE inventory_loop_abort(part_ids, fail, i + batch_size, next)

\* The loop of get_inventory_data from offset i on.  acc.data is the dict built
\* so far, acc.queries the id lists of the queries issued so far, acc.logged
\* the number of errors logged.  The k-th issued query raises iff k \in fail.
RECURSIVE inventory_loop(_, _, _, _)
inventory_loop(part_ids, fail, i, acc) ==
    IF i >= Len(part_ids) THEN acc
    ELSE LET batch_ids == BatchAt(part_ids, i)
             raises == (Len(acc.queries) + 1) \in fail
         IN inventory_loop(part_ids, fail, i + batch_size,
               [ data    |-> IF raises THEN acc.data
                             ELSE MergeInventoryRows(acc.data,
                                                     SelectIn(inventory, batch_ids)),
                 queries |-> Append(acc.queries, batch_ids),
                 logged  |-> acc.logged + (IF raises THEN 1 ELSE 0) ])

EmptyFetch == [ data |-> << >>, queries |-> << >>, logged |-> 0 ]

get_inventory_data(part_ids, fail) ==
    IF part_ids = << >> THEN EmptyFetch
    ELSE inventory_loop(part_ids, fail, 0, EmptyFetch)

\* Mutant: a failed batch query is issued a second time.
RECURSIVE price_loop_retry(_, _, _, _)
price_loop_retry(part_ids, fail, i, acc) ==
    IF i >= Len(part_ids) THEN acc
    ELSE LET batch_ids == BatchAt(part_ids, i)
             raises == (Len(acc.queries) + 1) \in fail
         IN price_loop_retry(part_ids, fail, i + batch_size,
               [ data    |-> MergePriceRows(acc.data,
                                SelectCurrent(SelectIn(part_prices, batch_ids))),
                 queries |-> IF raises
                             THEN Append(Append(acc.queries, batch_ids), batch_ids)
                             ELSE Append(acc.queries, batch_ids),
                 logged  |-> acc.logged + (IF raises THEN 1 ELSE 0) ])

\* The loop of get_price_data: as above, on part_prices rows flagged current.
RECURSIVE price_loop(_, _, _, _)
price_loop(part_ids, fail, i, acc) ==
    IF i >= Len(part_ids) THEN acc
    ELSE LET batch_ids == BatchAt(part_ids, i)
             raises == (Len(acc.queries) + 1) \in fail
         IN price_loop(part_ids, fail, i + batch_size,
               [ data    |-> IF raises THEN acc.data
                             ELSE MergePriceRows(acc.data,
                                     SelectCurrent(SelectIn(part_prices, batch_ids))),
                 queries |-> Append(acc.queries, batch_ids),
                 logged  |-> acc.logged + (IF raises THEN 1 ELSE 0) ])

get_price_data(part_ids, fail) ==
    IF part_ids = << >> THEN EmptyFetch
    ELSE price_loop(part_ids, fail, 0, EmptyFetch)

\* Mutant: a null min_stock counts as a threshold of 1.
MinStockOf_one(part) == IF part.min_stock = None THEN 1 ELSE part.min_stock[1]

\* ------------------------------------------------------ low-stock evaluator
\* part['min_stock'] if part['min_stock'] is not None else 0
MinStockOf(part) == IF part.min_stock = None THEN 0 ELSE part.min_stock[1]

\* part_ids = [part['part_id'] for part in parts_data.data]
PartIds(rows) == [ i \in 1..Len(rows) |-> rows[i].part_id ]

\* The inline batch loop of get_low_stock_items (its own copy of the fetcher).
RECURSIVE low_stock_loop(_, _, _, _)
low_stock_loop(part_ids, fail, i, acc) ==
    IF i >= Len(part_ids) THEN acc
    ELSE LET batch_ids == BatchAt(part_ids, i)
             raises == (Len(acc.queries) + 1) \in fail
         IN low_stock_loop(part_ids, fail, i + batch_size,
               [ data    |-> IF raises THEN acc.data
                             ELSE MergeInventoryRows(acc.data,
                                                     SelectIn(inventory, batch_ids)),
                 queries |-> Append(acc.queries, batch_ids),
                 logged  |-> acc.logged + (IF raises THEN 1 ELSE 0) ])

\* The record appended for a part below its threshold (the display columns
\* part_name, korean_name and unit are copied through and carry no logic).
LowStockRecord(part, current_quantity) ==
    [ part_id          |-> part.part_id,
      part_code        |-> part.part_code,
      category         |-> part.category,
      current_quantity |-> current_quantity,
      min_stock        |-> MinStockOf(part),
      shortage         |-> MinStockOf(part) - current_quantity ]

\* Mutant: the comparison is <= instead of <.
low_stock_pass_le(rows, inventory_map) ==
    LET below == SelectSeq(rows, LAMBDA part :
                    DictGet(inventory_map, part.part_id, 0) <= MinStockOf(part))
    IN [ k \in 1..Len(below) |->
           LowStockRecord(below[k], DictGet(inventory_map, below[k].part_id, 0)) ]

\* for part in parts_data.data: ... if current_quantity < min_stock: append
\* The records of the parts below their threshold, in table order.
low_stock_pass(rows, inventory_map) ==
    LET below == SelectSeq(rows, LAMBDA part :
                    DictGet(inventory_map, part.part_id, 0) < MinStockOf(part))
    IN [ k \in 1..Len(below) |->
           LowStockRecord(below[k], DictGet(inventory_map, below[k].part_id, 0)) ]

\* Mutant: the list is returned in table order.
unsorted(items) == items

\* sorted(items, key=shortage, reverse=True).  The sort is stable: a record
\* goes after the records of larger shortage and after the earlier records of
\* equal shortage.
sorted_by_shortage(items) ==
    LET n == Len(items)
        before == [ k \in 1..n |->
                      Cardinality({ j \in 1..n :
                          \/ items[j].shortage > items[k].shortage
                          \/ items[j].shortage = items[k].shortage /\ j < k }) ]
    IN [ r \in 1..n |-> items[CHOOSE k \in 1..n : before[k] = r - 1] ]

\* Mutant: a failing inventory batch query empties the result.
get_low_stock_items_all_or_nothing(failParts, fail) ==
    IF failParts THEN [ items |-> << >>, queries |-> 1, logged |-> 1 ]
    ELSE IF parts = << >> THEN [ items |-> << >>, queries |-> 1, logged |-> 0 ]
    ELSE LET fetched == low_stock_loop(PartIds(parts), fail, 0, EmptyFetch)
         IN [ items   |-> IF fetched.logged > 0 THEN << >>
                          ELSE sorted_by_shortage(low_stock_pass(parts, fetched.data)),
              queries |-> 1 + Len(fetched.queries),
              logged  |-> fetched.logged ]

\* Mutant: the exception of a failing parts query is not caught.
get_low_stock_items_uncaught(failParts, fail) ==
    IF failParts THEN [ raised |-> "Exception" ]
    ELSE IF parts = << >> THEN [ items |-> << >>, queries |-> 1, logged |-> 0 ]
    ELSE LET fetched == low_stock_loop(PartIds(parts), fail, 0, EmptyFetch)
         IN [ items   |-> sorted_by_shortage(low_stock_pass(parts, fetched.data)),
              queries |-> 1 + Len(fetched.queries),
              logged  |-> fetched.logged ]

\* get_low_stock_items(): failParts says the parts query raises, fail which
\* of the inventory batch queries raise.  Both try blocks end in an except
\* clause that logs, so every outcome is a returned list.
get_low_stock_items(failParts, fail) ==
    IF failParts THEN [ items |-> << >>, queries |-> 1, logged |-> 1 ]
    ELSE IF parts = << >> THEN [ items |-> << >>, queries |-> 1, logged |-> 0 ]
    ELSE LET fetched == low_stock_loop(PartIds(parts), fail, 0, EmptyFetch)
         IN [ items   |-> sorted_by_shortage(low_stock_pass(parts, fetched.data)),
              queries |-> 1 + Len(fetched.queries),
              logged  |-> fetched.logged ]

\* ------------------------------------------------- category/status aggregator
\* Mutant: only a null category goes to the other bucket.
CatOf_null_only(item) ==
    IF item.category = None THEN "other" ELSE item.category[1]

\* cat = item.get('category', other); if not cat: cat = other
CatOf(item) ==
    IF item.category = None \/ item.category = Some("") THEN "other"
    ELSE item.category[1]

\* The first loop of get_inventory_analysis_data over parts_result.data:
\* categories counts the rows of each category, part_ids_by_category lists
\* their ids in table order, order lists the keys of the categories dict in
\* insertion order (first appearance).
category_pass(rows) ==
    LET cats == { CatOf(rows[i]) : i \in DOMAIN rows }
        first == [ c \in cats |->
                     CHOOSE i \in DOMAIN rows :
                        /\ CatOf(rows[i]) = c
                        /\ \A j \in 1..(i - 1) : CatOf(rows[j]) # c ]
    IN [ categories |->
            [ c \in cats |->
                Cardinality({ i \in DOMAIN rows : CatOf(rows[i]) = c }) ],
         part_ids_by_category |->
            [ c \in cats |-> PartIds(SelectSeq(rows, LAMBDA r : CatOf(r) = c)) ],
         order |->
            [ r \in 1..Cardinality(cats) |->
                CHOOSE c \in cats :
                   Cardinality({ c2 \in cats : first[c2] < first[c] }) = r - 1 ],
         all_part_ids |-> PartIds(rows) ]

\* Sum of quantity * price over part_ids[lo..hi].
RECURSIVE ValueOfRange(_, _, _, _, _)
ValueOfRange(part_ids, inventory_data, price_data, lo, hi) ==
    IF lo > hi THEN 0
    ELSE IF lo = hi
         THEN DictGet(inventory_data, part_ids[lo], 0)
                * DictGet(price_data, part_ids[lo], 0)
    ELSE LET mid == (lo + hi) \div 2
         IN ValueOfRange(part_ids, inventory_data, price_data, lo, mid)
            + ValueOfRange(part_ids, inventory_data, price_data, mid + 1, hi)

\* total_value of one category: sum of quantity * price over its part ids.
ValueOf(part_ids, inventory_data, price_data) ==
    ValueOfRange(part_ids, inventory_data, price_data, 1, Len(part_ids))

\* sum(category_values.values()): a dict with a handful of keys.
RECURSIVE SumValues(_)
SumValues(d) ==
    IF DOMAIN d = {} THEN 0
    ELSE LET k == CHOOSE x \in DOMAIN d : TRUE
         IN d[k] + SumValues([ x \in (DOMAIN d) \ {k} |-> d[x] ])

\* Sum of d[k] over the keys k of d within lo..hi.
RECURSIVE SumKeyRange(_, _, _)
SumKeyRange(d, lo, hi) ==
    IF lo > hi THEN 0
    ELSE IF lo = hi THEN DictGet(d, lo, 0)
    ELSE LET mid == (lo + hi) \div 2
         IN SumKeyRange(d, lo, mid) + SumKeyRange(d, mid + 1, hi)

\* sum(inventory_data.values()): a dict keyed by part id.
SumQuantities(d) ==
    IF DOMAIN d = {} THEN 0
    ELSE SumKeyRange(d, CHOOSE x \in DOMAIN d : \A y \in DOMAIN d : x <= y,
                        CHOOSE x \in DOMAIN d : \A y \in DOMAIN d : y <= x)

\* Mutant: a category's row carries the count 1.
CategoryRows_count_one(order, categories, category_values) ==
    [ r \in 1..Len(order) |->
        [ category    |-> order[r],
          count       |-> 1,
          total_value |-> DictGet(category_values, order[r], 0) ] ]

\* category_data: one row per key of categories, in insertion order.
CategoryRows(order, categories, category_values) ==
    [ r \in 1..Len(order) |->
        [ category    |-> order[r],
          count       |-> categories[order[r]],
          total_value |-> DictGet(category_values, order[r], 0) ] ]

\* The status loop: rows with a null or empty status are skipped.
status_pass(rows) ==
    LET named == { i \in DOMAIN rows :
                     rows[i].status # None /\ rows[i].status # Some("") }
    IN [ s \in { rows[i].status[1] : i \in named } |->
           Cardinality({ i \in named : rows[i].status[1] = s }) ]

DefaultStatuses == << "NEW", "OLD", "REPAIR", "NG" >>

\* Mutant: a known status that no part has gets no entry.
WithDefaultStatuses_absent(status_counts) == status_counts

\* for status in [NEW, OLD, REPAIR, NG]: if absent, status_counts[status] = 0
WithDefaultStatuses(status_counts) ==
    [ s \in (DOMAIN status_counts) \cup Range(DefaultStatuses) |->
        DictGet(status_counts, s, 0) ]

\* min_stock_data[part_id] = 0 if min_stock is None else min_stock
min_stock_pass(rows) ==
    [ id \in RowIds(rows) |->
        IF LastRowOf(rows, id).min_stock = None THEN 0
        ELSE LastRowOf(rows, id).min_stock[1] ]

\* Mutant: the comparison is <= instead of <.
LowStockCount_le(min_stock_data, inventory_data) ==
    Cardinality({ part_id \in DOMAIN min_stock_data :
                    DictGet(inventory_data, part_id, 0) <= min_stock_data[part_id] })

\* low_stock_count: the parts of min_stock_data whose quantity is below it.
LowStockCount(min_stock_data, inventory_data) ==
    Cardinality({ part_id \in DOMAIN min_stock_data :
                    DictGet(inventory_data, part_id, 0) < min_stock_data[part_id] })

AnalysisNone == [ none |-> TRUE ]

\* The result get_inventory_analysis_data builds from the parts table and
\* the maps its two fetcher calls returned.
analysis_of(inventory_data, price_data) ==
    LET pass            == category_pass(parts)
        category_values ==
            [ cat \in DOMAIN pass.part_ids_by_category |->
                ValueOf(pass.part_ids_by_category[cat],
                        inventory_data, price_data) ]
        min_stock_data  == min_stock_pass(parts)
    IN [ none          |-> FALSE,
         category_data |-> CategoryRows(pass.order, pass.categories,
                                        category_values),
         status_counts |-> WithDefaultStatuses(status_pass(parts)),
         summary_data  |->
            [ total_parts     |-> Len(pass.all_part_ids),
              total_quantity  |-> SumQuantities(inventory_data),
              total_value     |-> SumValues(category_values),
              low_stock_parts |-> LowStockCount(min_stock_data,
                                                inventory_data) ] ]

\* get_inventory_analysis_data(): f.parts, f.status, f.min_stock say that the
\* first, second and third query on parts raise; f.inv and f.price which batch
\* queries of get_inventory_data and get_price_data raise.  Any exception
\* outside the fetchers makes the function return None.
get_inventory_analysis_data(f) ==
    IF f.parts \/ f.status \/ f.min_stock THEN AnalysisNone
    ELSE LET pass == category_pass(parts)
         IN analysis_of(get_inventory_data(pass.all_part_ids, f.inv).data,
                        get_price_data(pass.all_part_ids, f.price).data)

\* The combined_data loop of show_current_inventory over the rows of a
\* search result: quantity and price default to 0, a null min_stock to 0,
\* and the status column says short when the quantity is below min_stock.
combined_data(parts_data, inventory_data, price_data) ==
    [ k \in 1..Len(parts_data) |->
        LET part           == parts_data[k]
            inventory_info == DictGet(inventory_data, part.part_id, 0)
            unit_price     == DictGet(price_data, part.part_id, 0)
            min_stock      == IF part.min_stock # None THEN part.min_stock[1] ELSE 0
        IN [ part_id          |-> part.part_id,
             part_code        |-> part.part_code,
             category         |-> part.category,
             current_quantity |-> inventory_info,
             min_stock        |-> min_stock,
             unit_price       |-> unit_price,
             total_value      |-> inventory_info * unit_price,
             status           |-> IF inventory_info < min_stock
                                  THEN "short" ELSE "normal" ] ]

\* ------------------------------------------------------------ table inputs
\* A part code is a token sequence such as <<"MT", 138>>; the empty string
\* is the empty sequence.
Code(i) == << "MT", i >>

PartRow(id, code, category, status, min_stock) ==
    [ part_id |-> id, part_code |-> code, category |-> category,
      status |-> status, min_stock |-> min_stock ]

InventoryRow(id, quantity) == [ part_id |-> id, current_quantity |-> quantity ]

PriceRow(id, supplier, price, current) ==
    [ part_id |-> id, supplier_id |-> supplier, unit_price |-> price,
      is_current |-> current ]

\* The concatenation of ss[lo..hi].
RECURSIVE FlattenRange(_, _, _)
FlattenRange(ss, lo, hi) ==
    IF lo > hi THEN << >>
    ELSE IF lo = hi THEN ss[lo]
    ELSE LET mid == (lo + hi) \div 2
         IN FlattenRange(ss, lo, mid) \o FlattenRange(ss, mid + 1, hi)

Flatten(ss) == FlattenRange(ss, 1, Len(ss))

Reverse(s) == [ i \in 1..Len(s) |-> s[Len(s) + 1 - i] ]

\* Exhaustive small tables: per part, the threshold and the inventory row.
MinStockChoices == { None, Some(0), Some(2) }
InventoryChoices(i) ==
    { << >> } \cup { << InventoryRow(i, q) >> : q \in { None, Some(1), Some(2), Some(3) } }

\* Exhaustive small tables: per part, the category, the price rows, the stock.
CategoryChoices == { None, Some(""), Some("pump"), Some("other") }
PriceChoices(i) ==
    { << >>, << PriceRow(i, 1, Some(2), TRUE) >>, << PriceRow(i, 1, Some(5), FALSE) >>,
      << PriceRow(i, 1, Some(3), TRUE), PriceRow(i, 2, Some(0), TRUE) >> }
StockChoices(i) == { << >>, << InventoryRow(i, Some(3)) >> }

\* Patterned bulk tables of n parts, one per seed.
BulkSizes ==
    { k * batch_size + d : k \in 1..MaxBatches, d \in { -1, 0, 1 } }
    \cup { k * batch_size + batch_size \div 2 : k \in 1..(MaxBatches - 1) }

BulkMinStock(i, s) ==
    LET v == (i * (s + 2) + s) % 7 IN IF v = 6 THEN None ELSE Some(v)

BulkInventory(i, s) ==
    LET q == (i * (2 * s + 3)) % 6
    IN IF q = 5 THEN << >>
       ELSE IF q = 4 THEN << InventoryRow(i, None) >>
       ELSE << InventoryRow(i, Some(q)) >>

BulkCategory(i, s) ==
    LET c == (i + s) % 5
    IN CASE c = 0 -> None
         [] c = 1 -> Some("")
         [] c = 2 -> Some("pump")
         [] c = 3 -> Some("filter")
         [] OTHER -> Some("other")

BulkStatus(i, s) ==
    LET c == (i * (s + 1)) % 7
    IN CASE c = 0 -> None
         [] c = 1 -> Some("")
         [] c = 2 -> Some("NEW")
         [] c = 3 -> Some("OLD")
         [] c = 4 -> Some("REPAIR")
         [] c = 5 -> Some("NG")
         [] OTHER -> Some("OLDER")

BulkPrices(i, s) ==
    LET p == (i * s + 1) % 5
    IN CASE p = 0 -> << >>
         [] p = 1 -> << PriceRow(i, 1, Some(i % 3), TRUE) >>
         [] p = 2 -> << PriceRow(i, 1, Some(5), FALSE), PriceRow(i, 2, Some(2), TRUE) >>
         [] p = 3 -> << PriceRow(i, 1, Some(3), TRUE), PriceRow(i, 2, Some(1), TRUE) >>
         [] OTHER -> << PriceRow(i, 1, None, TRUE) >>

NoCall == [ op |-> "none" ]
NoSessions == << >>

\* The pages and the cache before their first use.
NoForm == [ supplier_code |-> << >>, calls |-> << >>, msg |-> "" ]
NoPage ==
    [ selected_id |-> 0, edit_mode |-> FALSE, confirm_shown |-> FALSE,
      delete_confirm |-> FALSE, ticked |-> FALSE, calls |-> << >>, msg |-> "" ]
NoSessionState ==
    [ authenticated |-> FALSE, username |-> None, user_role |-> None,
      user_data |-> None, selected_menu |-> None ]
NoCache == << >>

ui == << suppliers, supplier_form, page, session_state >>
caching == << cache, now >>

InitUi ==
    /\ suppliers = << >>
    /\ supplier_form = NoForm
    /\ page = NoPage
    /\ session_state = NoSessionState

InitCaching ==
    /\ cache = NoCache
    /\ now = 0

\* The inputs of the aggregation functions: a backend content.
InitStock ==
    \E n \in 0..SmallParts :
      \E ms \in [ 1..n -> MinStockChoices ] :
        \E inv \in [ 1..n -> UNION { InventoryChoices(i) : i \in 1..n } ] :
            /\ \A i \in 1..n : inv[i] \in InventoryChoices(i)
            /\ parts = [ i \in 1..n |->
                           PartRow(i, Code(i), Some("pump"), Some("NEW"), ms[i]) ]
            /\ inventory = Flatten(inv)
            /\ part_prices = << >>

InitValue ==
    \E n \in 1..SmallParts :
      \E cs \in [ 1..n -> CategoryChoices ] :
        \E pr \in [ 1..n -> UNION { PriceChoices(i) : i \in 1..n } ] :
          \E inv \in [ 1..n -> UNION { StockChoices(i) : i \in 1..n } ] :
            /\ \A i \in 1..n : pr[i] \in PriceChoices(i) /\ inv[i] \in StockChoices(i)
            /\ parts = [ i \in 1..n |->
                           PartRow(i, Code(i), cs[i], Some("OLD"), Some(1)) ]
            /\ inventory = Flatten(inv)
            /\ part_prices = Flatten(pr)

InitBulk ==
    \E n \in BulkSizes :
      \E s \in 0..MaxSeed :
        /\ parts = [ i \in 1..n |->
                       PartRow(i, Code(i), BulkCategory(i, s), BulkStatus(i, s),
                               BulkMinStock(i, s)) ]
        /\ inventory =
             LET rows == Flatten([ i \in 1..n |-> BulkInventory(i, s) ])
             IN IF s % 2 = 0 THEN rows ELSE Reverse(rows)
        /\ part_prices = Flatten([ i \in 1..n |-> BulkPrices(i, s) ])

\* The table of the shortage scenario: thresholds 10 and 3, stock 5 and 3.
InitScenario ==
    /\ parts = << PartRow(1, Code(1), Some("pump"), Some("NEW"), Some(10)),
                  PartRow(2, Code(2), Some("pump"), Some("NEW"), Some(3)) >>
    /\ inventory = << InventoryRow(1, Some(5)), InventoryRow(2, Some(3)) >>
    /\ part_prices = << >>

\* Unset columns: a part without min_stock and without status, its quantity
\* null, negative, 0 or positive, a part below its threshold with an empty
\* status, and two parts of one status.
InitUnset ==
    \E q \in { None, Some(-1), Some(0), Some(2) } :
        /\ parts = << PartRow(1, Code(1), Some("pump"), None, None),
                      PartRow(2, Code(2), Some("filter"), Some(""), Some(2)),
                      PartRow(3, Code(3), Some("pump"), Some("NG"), Some(0)),
                      PartRow(4, Code(4), Some("pump"), Some("NG"), Some(0)) >>
        /\ inventory = << InventoryRow(1, q), InventoryRow(2, Some(1)) >>
        /\ part_prices = << PriceRow(1, 1, Some(2), TRUE) >>

InitFetch ==
    /\ InitStock \/ InitValue \/ InitBulk \/ InitScenario \/ InitUnset
    /\ next_part_id = Len(parts) + 1
    /\ ret = NoCall
    /\ sess = NoSessions
    /\ InitUi
    /\ InitCaching

\* ------------------------------------------------- calls of the aggregators
\* The id lists the callers pass: every part id (all_part_ids), or the ids of
\* a get_parts search result (a sub-list of the parts, in table order).
IdLists ==
    { PartIds(parts),
      PartIds(SelectSeq(parts, LAMBDA r : r.part_id % 2 = 0)),
      PartIds(SelectSeq(parts, LAMBDA r : r.category = Some("pump"))) }

\* The search results of get_parts: every part, or the parts of a category.
SearchResults ==
    { parts, SelectSeq(parts, LAMBDA r : r.category = Some("pump")) }

\* Which of the batch queries issued for part_ids may raise.
FailSets(part_ids) == SUBSET (1..Len(get_inventory_data(part_ids, {}).queries))

NoQueryFails ==
    [ parts |-> FALSE, status |-> FALSE, min_stock |-> FALSE,
      inv |-> {}, price |-> {} ]

AnalysisFails ==
    { [ NoQueryFails EXCEPT !.inv = x, !.price = y ] :
        x \in FailSets(PartIds(parts)), y \in FailSets(PartIds(parts)) }
    \cup { [ NoQueryFails EXCEPT !.parts = TRUE ],
           [ NoQueryFails EXCEPT !.status = TRUE ],
           [ NoQueryFails EXCEPT !.min_stock = TRUE ] }

backend == << parts, inventory, part_prices, next_part_id >>

CallGetInventoryData ==
    /\ ret = NoCall
    /\ \E part_ids \in IdLists : \E fail \in FailSets(part_ids) :
         ret' = [ op |-> "get_inventory_data", part_ids |-> part_ids,
                  fail |-> fail, value |-> get_inventory_data(part_ids, fail) ]
    /\ UNCHANGED << backend, sess, ui, caching >>

CallGetPriceData ==
    /\ ret = NoCall
    /\ \E part_ids \in IdLists : \E fail \in FailSets(part_ids) :
         ret' = [ op |-> "get_price_data", part_ids |-> part_ids,
                  fail |-> fail, value |-> get_price_data(part_ids, fail) ]
    /\ UNCHANGED << backend, sess, ui, caching >>

CallGetLowStockItems ==
    /\ ret = NoCall
    /\ \E failParts \in BOOLEAN : \E fail \in FailSets(PartIds(parts)) :
         ret' = [ op |-> "get_low_stock_items", failParts |-> failParts,
                  fail |-> fail, value |-> get_low_stock_items(failParts, fail) ]
    /\ UNCHANGED << backend, sess, ui, caching >>

CallGetInventoryAnalysisData ==
    /\ ret = NoCall
    /\ \E f \in AnalysisFails :
         ret' = [ op |-> "get_inventory_analysis_data", f |-> f,
                  value |-> get_inventory_analysis_data(f) ]
    /\ UNCHANGED << backend, sess, ui, caching >>

\* The failures tried for the two fetcher calls of a search: any inventory
\* batches, and the same price batches or none.
SearchFails ==
    { [ NoQueryFails EXCEPT !.inv = x, !.price = IF same THEN x ELSE {} ] :
        x \in FailSets(PartIds(parts)), same \in BOOLEAN }

\* The table of show_current_inventory after a click on the search button,
\* for a search result parts_data; fail.inv and fail.price say which batch
\* queries of its two fetcher calls raise.  Without a row found the page
\* shows no table.
CallShowCurrentInventory ==
    /\ ret = NoCall
    /\ \E parts_data \in SearchResults : \E f \in SearchFails :
         /\ ret' = [ op |-> "show_current_inventory", parts_data |-> parts_data,
                     f |-> f,
                     value |->
                       LET part_ids == PartIds(parts_data)
                       IN combined_data(parts_data,
                                        get_inventory_data(part_ids, f.inv).data,
                                        get_price_data(part_ids, f.price).data) ]
    /\ UNCHANGED << backend, sess, ui, caching >>

NextFetch ==
    \/ CallGetInventoryData
    \/ CallGetPriceData
    \/ CallGetLowStockItems
    \/ CallGetInventoryAnalysisData
    \/ CallShowCurrentInventory

SpecFetch == InitFetch /\ [][NextFetch]_vars

\* ------------------------------------------------------------------ claims
\* What the tables say about a part, stated without the fetchers.
PartIdSet == { parts[i].part_id : i \in DOMAIN parts }

LastIndex(S) == CHOOSE i \in S : \A j \in S : j <= i

\* The stock of a part: its inventory row's quantity, 0 when the row or the
\* quantity is missing.
QuantityOf(id) ==
    LET rows == { i \in DOMAIN inventory : inventory[i].part_id = id }
    IN IF rows = {} THEN 0
       ELSE LET q == inventory[LastIndex(rows)].current_quantity
            IN IF q = None THEN 0 ELSE q[1]

\* The current price of a part: the unit price of its current price row, 0
\* when there is none.
PriceOf(id) ==
    LET rows == { i \in DOMAIN part_prices :
                    part_prices[i].part_id = id /\ part_prices[i].is_current }
    IN IF rows = {} THEN 0
       ELSE LET u == part_prices[LastIndex(rows)].unit_price
            IN IF u = None THEN 0 ELSE u[1]

ThresholdOf(part) == IF part.min_stock = None THEN 0 ELSE part.min_stock[1]

\* The sum of f[i] over the i \in S within lo..hi.
RECURSIVE Total(_, _, _, _)
Total(f, S, lo, hi) ==
    IF lo > hi THEN 0
    ELSE IF lo = hi THEN (IF lo \in S THEN f[lo] ELSE 0)
    ELSE LET mid == (lo + hi) \div 2
         IN Total(f, S, lo, mid) + Total(f, S, mid + 1, hi)

IsLowStockCall == ret.op = "get_low_stock_items"
IsFetchCall == ret.op \in { "get_inventory_data", "get_price_data" }
IsAnalysisCall == ret.op = "get_inventory_analysis_data"

\* C1: with no query failing, get_low_stock_items returns exactly one record
\* for each part whose quantity is strictly below its threshold, none for any
\* other part, and each record's shortage is threshold - quantity.
C1_LowStockExact ==
    (IsLowStockCall /\ ~ret.failParts /\ ret.fail = {}) =>
        LET items == ret.value.items
        IN /\ \A i \in DOMAIN parts :
                LET part == parts[i]
                    q    == QuantityOf(part.part_id)
                    t    == ThresholdOf(part)
                    recs == { k \in DOMAIN items : items[k].part_id = part.part_id }
                IN IF q < t
                   THEN /\ Cardinality(recs) = 1
                        /\ \A k \in recs : items[k].shortage = t - q
                   ELSE recs = {}
           /\ \A k \in DOMAIN items : items[k].part_id \in PartIdSet

\* C1 witness: the scenario {id 1, threshold 10, qty 5}, {id 2, threshold 3,
\* qty 3} gives only the record of part 1, with shortage 5.
C1_Witness ==
    /\ IsLowStockCall /\ ~ret.failParts /\ ret.fail = {}
    /\ Len(parts) = 2
    /\ parts[1].min_stock = Some(10) /\ parts[2].min_stock = Some(3)
    /\ QuantityOf(1) = 5 /\ QuantityOf(2) = 3
    /\ Len(ret.value.items) = 1
    /\ ret.value.items[1].part_id = 1
    /\ ret.value.items[1].shortage = 5

\* C2: the list returned by get_low_stock_items is sorted non-increasing by
\* shortage: each record's shortage is >= the next record's.
C2_SortedNonIncreasing ==
    IsLowStockCall =>
        LET items == ret.value.items
        IN \A k \in 1..(Len(items) - 1) : items[k].shortage >= items[k + 1].shortage

\* C2 witness: a result in which the sort moved a later part before an earlier
\* one.
C2_Witness ==
    /\ IsLowStockCall
    /\ Len(ret.value.items) >= 3
    /\ \E k \in 1..(Len(ret.value.items) - 1) :
         /\ ret.value.items[k].part_id > ret.value.items[k + 1].part_id
         /\ ret.value.items[k].shortage > ret.value.items[k + 1].shortage

\* The map a single unbounded query over all of part_ids would produce.
SingleQueryMap(op, part_ids) ==
    LET ids == Range(part_ids)
        present == IF op = "get_inventory_data"
                   THEN { inventory[i].part_id : i \in DOMAIN inventory } \cap ids
                   ELSE { part_prices[i].part_id :
                            i \in { j \in DOMAIN part_prices :
                                      part_prices[j].is_current } } \cap ids
    IN [ id \in present |->
           IF op = "get_inventory_data" THEN QuantityOf(id) ELSE PriceOf(id) ]

\* C3: when no batch query fails, the map returned by get_inventory_data /
\* get_price_data equals the map of a single unbounded query over all the
\* identifiers, whatever the number of batches.
C3_BatchEqualsSingleQuery ==
    (IsFetchCall /\ ret.fail = {}) =>
        ret.value.data = SingleQueryMap(ret.op, ret.part_ids)

\* C3 witness: a fetch of more than two batches that returned entries.
C3_Witness ==
    /\ IsFetchCall /\ ret.fail = {}
    /\ Len(ret.value.queries) >= 3
    /\ Cardinality(DOMAIN ret.value.data) > batch_size

\* C4: for n identifiers the fetcher issues exactly ceil(n/batch_size)
\* queries, one per consecutive batch of at most batch_size identifiers, each
\* identifier sent in exactly one batch and no batch re-issued, also when
\* queries fail; 45 identifiers give 2 queries and, when all exist, 45
\* entries; an empty list gives no query and an empty map.
C4_OneQueryPerBatch ==
    IsFetchCall =>
        LET n       == Len(ret.part_ids)
            queries == ret.value.queries
        IN /\ Len(queries) = (n + batch_size - 1) \div batch_size
           /\ Flatten(queries) = ret.part_ids
           /\ \A k \in DOMAIN queries : Len(queries[k]) \in 1..batch_size
           /\ \A k \in 1..(Len(queries) - 1) : Len(queries[k]) = batch_size
           /\ n = 0 => (queries = << >> /\ ret.value.data = << >>)
           /\ n = 45 => Len(queries) = 2
           /\ (/\ n = 45 /\ ret.fail = {}
               /\ \A i \in DOMAIN ret.part_ids :
                    ret.part_ids[i] \in DOMAIN SingleQueryMap(ret.op, ret.part_ids))
              => Cardinality(DOMAIN ret.value.data) = 45

\* C4 witness: a price lookup for the ids 1..45, all with a current price,
\* that issued 2 queries and returned 45 entries.
C4_Witness ==
    /\ ret.op = "get_price_data" /\ ret.fail = {}
    /\ ret.part_ids = [ i \in 1..45 |-> i ]
    /\ Len(ret.value.queries) = 2
    /\ Cardinality(DOMAIN ret.value.data) = 45

\* The batch in which the k-th issued query sends the identifier at position i.
BatchOf(i) == (i - 1) \div batch_size + 1

\* C5: when batch queries fail, the fetcher returns a map holding the entries
\* of every batch that succeeded, before and after the failed ones, and no
\* entry for an identifier of a failed batch.
C5_PartialResults ==
    (IsFetchCall /\ ret.fail # {}) =>
        LET single == SingleQueryMap(ret.op, ret.part_ids)
            ok     == { ret.part_ids[i] : i \in { j \in DOMAIN ret.part_ids :
                                                   BatchOf(j) \notin ret.fail } }
            failed == { ret.part_ids[i] : i \in { j \in DOMAIN ret.part_ids :
                                                   BatchOf(j) \in ret.fail } }
        IN /\ \A id \in ok \cap DOMAIN single :
                id \in DOMAIN ret.value.data /\ ret.value.data[id] = single[id]
           /\ \A id \in failed : id \notin DOMAIN ret.value.data
           /\ ret.value.logged = Cardinality(ret.fail)

\* C5 witness: the second of three batches failed, and the map holds entries
\* of the first and of the third batch.
C5_Witness ==
    /\ IsFetchCall /\ ret.fail = {2}
    /\ Len(ret.value.queries) = 3
    /\ \E a \in Range(ret.value.queries[1]) : a \in DOMAIN ret.value.data
    /\ \E b \in Range(ret.value.queries[2]) :
          b \in DOMAIN SingleQueryMap(ret.op, ret.part_ids)
    /\ \E c \in Range(ret.value.queries[3]) : c \in DOMAIN ret.value.data

AnalysisReturned == IsAnalysisCall /\ ~ret.value.none

\* C6: in the result of get_inventory_analysis_data the per-category counts
\* sum to total_parts and the per-category total_value entries sum to the
\* summary total_value.
C6_CategorySums ==
    AnalysisReturned =>
        LET rows == ret.value.category_data
        IN /\ Total([ r \in DOMAIN rows |-> rows[r].count ], DOMAIN rows, 1, Len(rows))
                = ret.value.summary_data.total_parts
           /\ Total([ r \in DOMAIN rows |-> rows[r].total_value ], DOMAIN rows, 1, Len(rows))
                = ret.value.summary_data.total_value

\* C6 witness: a result with several categories, one of them holding several
\* parts, and a positive total value.
C6_Witness ==
    /\ AnalysisReturned
    /\ Len(ret.value.category_data) >= 2
    /\ \E r \in DOMAIN ret.value.category_data :
          ret.value.category_data[r].count >= 2
    /\ ret.value.summary_data.total_value > 0

\* The parts whose category is null, empty or the literal other.
OtherBucket ==
    { i \in DOMAIN parts : parts[i].category \in { None, Some(""), Some("other") } }

\* C7: every part whose category is null or empty is counted, with its
\* inventory value, under the other bucket, and no part is left out of the
\* per-category counts.
C7_NullCategoryUnderOther ==
    AnalysisReturned =>
        LET rows  == ret.value.category_data
            other == { r \in DOMAIN rows : rows[r].category = "other" }
        IN /\ OtherBucket # {} => Cardinality(other) = 1
           /\ \A r \in other :
                /\ rows[r].count = Cardinality(OtherBucket)
                /\ (ret.f = NoQueryFails) =>
                      rows[r].total_value =
                         Total([ i \in DOMAIN parts |->
                                   QuantityOf(parts[i].part_id) * PriceOf(parts[i].part_id) ],
                               OtherBucket, 1, Len(parts))
           /\ \A r \in DOMAIN rows : rows[r].category # ""
           /\ Total([ r \in DOMAIN rows |-> rows[r].count ], DOMAIN rows, 1, Len(rows))
                = Len(parts)

\* C7 witness: a part with a null category and one with an empty category,
\* with a positive inventory value, counted under other.
C7_Witness ==
    /\ AnalysisReturned /\ ret.f = NoQueryFails
    /\ \E i, j \in DOMAIN parts :
          /\ parts[i].category = None /\ parts[j].category = Some("")
          /\ QuantityOf(parts[i].part_id) * PriceOf(parts[i].part_id) > 0
    /\ \E r \in DOMAIN ret.value.category_data :
          /\ ret.value.category_data[r].category = "other"
          /\ ret.value.category_data[r].count >= 2
          /\ ret.value.category_data[r].total_value > 0

\* C10: on one backend state, with no query failing, the low_stock_parts of
\* get_inventory_analysis_data equals the number of records that
\* get_low_stock_items returns.
C10_LowStockCountsAgree ==
    (AnalysisReturned /\ ret.f = NoQueryFails) =>
        ret.value.summary_data.low_stock_parts
            = Len(get_low_stock_items(FALSE, {}).items)

\* C10 witness: an analysis of a table where some parts are below their
\* threshold and some are not, over more than one batch.
C10_Witness ==
    /\ AnalysisReturned /\ ret.f = NoQueryFails
    /\ Len(parts) > batch_size
    /\ ret.value.summary_data.low_stock_parts \in 1..(Len(parts) - 1)

PositivePriceOf(id) ==
    LET rows == { i \in DOMAIN part_prices :
                    /\ part_prices[i].part_id = id
                    /\ part_prices[i].is_current
                    /\ part_prices[i].unit_price # None
                    /\ part_prices[i].unit_price[1] > 0 }
    IN IF rows = {} THEN 0 ELSE part_prices[LastIndex(rows)].unit_price[1]

Returned(outcome) == "raised" \notin DOMAIN outcome

IsList(value) == DOMAIN value = 1..Len(value)

\* A result of get_inventory_analysis_data with every table and every
\* summary figure.
CompleteAnalysis(value) ==
    /\ DOMAIN value = { "none", "category_data", "status_counts", "summary_data" }
    /\ ~value.none
    /\ IsList(value.category_data)
    /\ DOMAIN value.summary_data =
          { "total_parts", "total_quantity", "total_value", "low_stock_parts" }

\* C21: whatever subset of their backend queries fails, get_low_stock_items
\* and get_inventory_analysis_data raise nothing: get_low_stock_items returns
\* a list, get_inventory_analysis_data a complete result or None.
C21_NoExceptionPropagates ==
    /\ IsLowStockCall =>
          Returned(ret.value) /\ IsList(ret.value.items)
    /\ IsAnalysisCall =>
          Returned(ret.value)
             /\ (ret.value = AnalysisNone \/ CompleteAnalysis(ret.value))

\* C21 witness: a call whose parts query and whose inventory batch query
\* both raise, over a table with parts.
C21_Witness ==
    /\ IsLowStockCall /\ ret.failParts /\ ret.fail # {}
    /\ parts # << >>
    /\ ret.value.items = << >>

\* C22: a part whose min_stock is null has threshold 0 in get_low_stock_items,
\* in the low_stock_parts count of get_inventory_analysis_data and in the
\* status column of show_current_inventory: with a quantity of 0 or more it
\* is not listed as short, not counted as low stock, not shown as short.
C22_NullThresholdIsZero ==
    LET unset == { i \in DOMAIN parts :
                     /\ parts[i].min_stock = None
                     /\ QuantityOf(parts[i].part_id) >= 0 }
        others == { i \in DOMAIN parts : i \notin unset }
    IN /\ IsLowStockCall =>
            \A k \in DOMAIN ret.value.items : \A i \in unset :
                ret.value.items[k].part_id # parts[i].part_id
       /\ AnalysisReturned =>
            ret.value.summary_data.low_stock_parts <= Cardinality(others)
       /\ ret.op = "show_current_inventory" =>
            \A k \in DOMAIN ret.value : \A i \in unset :
                ret.value[k].part_id = parts[i].part_id
                    => ret.value[k].status = "normal"

\* C22 witness: the search table shows a part without min_stock as normal
\* next to a part that is short.
C22_Witness ==
    /\ ret.op = "show_current_inventory"
    /\ \E k, j \in DOMAIN ret.value :
          /\ \E i \in DOMAIN parts :
                /\ parts[i].part_id = ret.value[k].part_id
                /\ parts[i].min_stock = None
                /\ QuantityOf(parts[i].part_id) >= 0
          /\ ret.value[k].status = "normal"
          /\ ret.value[j].status = "short"

\* The sum of the values of a dict.
RECURSIVE SumOfCounts(_)
SumOfCounts(d) ==
    IF DOMAIN d = {} THEN 0
    ELSE LET k == CHOOSE x \in DOMAIN d : TRUE
         IN d[k] + SumOfCounts([ x \in DOMAIN d \ {k} |-> d[x] ])

\* C23: the status table of get_inventory_analysis_data has an entry for each
\* of NEW, OLD, REPAIR and NG, every entry's count is the number of parts
\* with that status, parts with a null or empty status are counted under no
\* status, and the counts sum to at most total_parts.
C23_StatusTable ==
    AnalysisReturned =>
        LET status_counts == ret.value.status_counts
            PartsWith(status) ==
                { i \in DOMAIN parts : parts[i].status = Some(status) }
        IN /\ { "NEW", "OLD", "REPAIR", "NG" } \subseteq DOMAIN status_counts
           /\ \A status \in DOMAIN status_counts :
                status_counts[status] = Cardinality(PartsWith(status))
           /\ "" \notin DOMAIN status_counts
           /\ SumOfCounts(status_counts)
                = Cardinality({ i \in DOMAIN parts :
                                  parts[i].status \notin { None, Some("") } })
           /\ SumOfCounts(status_counts) <= ret.value.summary_data.total_parts

\* C23 witness: a result over parts of which some have a null and some an
\* empty status, where one known status has count 0 and another a count
\* above 1, so that the counts sum to less than total_parts.
C23_Witness ==
    /\ AnalysisReturned
    /\ \E i, j \in DOMAIN parts :
          parts[i].status = None /\ parts[j].status = Some("")
    /\ \E s, t \in { "NEW", "OLD", "REPAIR", "NG" } :
          ret.value.status_counts[s] = 0 /\ ret.value.status_counts[t] > 1
    /\ SumOfCounts(ret.value.status_counts) < ret.value.summary_data.total_parts

\* C25: when an inventory batch query of get_low_stock_items fails and the
\* parts query succeeded, every part of the failed batch is evaluated with
\* quantity 0: each of them with min_stock above 0 is returned as one
\* shortage record with current_quantity 0 and shortage equal to its
\* min_stock, whatever its stock is.
C25_FailedBatchCountsAsZero ==
    (IsLowStockCall /\ ~ret.failParts) =>
        \A i \in DOMAIN parts :
            (BatchOf(i) \in ret.fail /\ ThresholdOf(parts[i]) > 0) =>
                LET recs == { k \in DOMAIN ret.value.items :
                                ret.value.items[k].part_id = parts[i].part_id }
                IN /\ Cardinality(recs) = 1
                   /\ \A k \in recs :
                        /\ ret.value.items[k].current_quantity = 0
                        /\ ret.value.items[k].shortage = ThresholdOf(parts[i])

\* C25 witness: the second of at least two batches failed; a part of it
\* that holds its minimum stock is returned with quantity 0, while a part of
\* the first batch is returned with its own quantity.
C25_Witness ==
    /\ IsLowStockCall /\ ~ret.failParts /\ ret.fail = {2}
    /\ \E i \in DOMAIN parts : \E k \in DOMAIN ret.value.items :
          /\ BatchOf(i) = 2
          /\ QuantityOf(parts[i].part_id) >= ThresholdOf(parts[i])
          /\ ret.value.items[k].part_id = parts[i].part_id
          /\ ret.value.items[k].current_quantity = 0
    /\ \E k \in DOMAIN ret.value.items : ret.value.items[k].current_quantity > 0

\* ------------------------------------------------------- add-part form
\* show_parts_add's submit handler, one action per backend call: sessions
\* run the handler concurrently and interleave between their calls.
Sessions == 1..NumSessions

\* What the user types: a part code and a part name (either may be empty).
CodeInputs == { << >>, Code(1), Code(2) }
NameInputs == { "", "FILTER" }

\* The form's first category and status options and its default min_stock;
\* the concurrent sessions leave the status selectbox at its first option.
FormCategory == Some("filter")
FormStatus == Some("NEW")
FormMinStock == Some(5)

\* required_statuses and the status selectbox's options: the statuses found in
\* parts with the required ones added, the required ones alone when the
\* status query returns nothing or raises.
required_statuses == { "NEW", "OLD", "OLDER" }

status_options(raises) ==
    IF raises THEN required_statuses
    ELSE { parts[i].status[1] :
             i \in { j \in DOMAIN parts : parts[j].status \notin { None, Some("") } } }
         \cup required_statuses

IdleSession ==
    [ pc |-> "form", part_code |-> << >>, status |-> FormStatus, part_id |-> 0,
      calls |-> << >>, msg |-> "" ]

\* duplicate_check.data: the rows of parts with part_code = code.
DuplicateCheck(code) == SelectSeq(parts, LAMBDA r : r.part_code = code)

\* Mutant: the duplicate check finds nothing.
DuplicateFound_never(code) == FALSE

\* if duplicate_check.data:
DuplicateFound(code) == DuplicateCheck(code) # << >>

\* Mutant: the duplicate check query is issued before the required fields
\* are looked at.
Submit_check_first(s, part_code, part_name, status, raises) ==
    /\ sess[s].pc = "form"
    /\ sess' = [ sess EXCEPT ![s] =
         LET form == [ IdleSession EXCEPT !.part_code = part_code,
                                          !.status = Some(status),
                                          !.calls = << "select parts" >> ]
         IN IF raises
            THEN [ form EXCEPT !.msg = "error" ]
            ELSE IF DuplicateFound(part_code)
            THEN [ form EXCEPT !.msg = "duplicate" ]
            ELSE IF part_code = << >>
            THEN [ form EXCEPT !.msg = "code_required" ]
            ELSE IF part_name = ""
            THEN [ form EXCEPT !.msg = "name_required" ]
            ELSE [ form EXCEPT !.pc = "insert_part" ] ]
    /\ UNCHANGED << backend, ret, ui, caching >>

\* The handler up to and including the duplicate check query.  raises says
\* that the query raises.  The session keeps the submitted code and status
\* (they go into part_data), the backend calls the handler made, and the
\* message shown.
Submit(s, part_code, part_name, status, raises) ==
    /\ sess[s].pc = "form"
    /\ sess' = [ sess EXCEPT ![s] =
         LET form == [ IdleSession EXCEPT !.part_code = part_code,
                                          !.status = Some(status) ]
         IN IF part_code = << >>
            THEN [ form EXCEPT !.msg = "code_required" ]
            ELSE IF part_name = ""
            THEN [ form EXCEPT !.msg = "name_required" ]
            ELSE IF raises
            THEN [ form EXCEPT !.calls = << "select parts" >>, !.msg = "error" ]
            ELSE IF DuplicateFound(part_code)
            THEN [ form EXCEPT !.calls = << "select parts" >>, !.msg = "duplicate" ]
            ELSE [ form EXCEPT !.calls = << "select parts" >>,
                               !.pc = "insert_part" ] ]
    /\ UNCHANGED << backend, ret, ui, caching >>

\* supabase().from_("parts").insert(part_data).execute(): outcome is "ok",
\* "empty" (no row returned) or "raises".
InsertPart(s, outcome) ==
    /\ sess[s].pc = "insert_part"
    /\ Len(parts) < MaxRows
    /\ IF outcome = "ok"
       THEN /\ parts' = Append(parts,
                  PartRow(next_part_id, sess[s].part_code, FormCategory,
                          sess[s].status, FormMinStock))
            /\ next_part_id' = next_part_id + 1
            /\ sess' = [ sess EXCEPT ![s].pc = "insert_inventory",
                                     ![s].part_id = next_part_id,
                                     ![s].calls = Append(@, "insert parts") ]
       ELSE /\ UNCHANGED << parts, next_part_id >>
            /\ sess' = [ sess EXCEPT ![s].pc = "form",
                                     ![s].calls = Append(@, "insert parts"),
                                     ![s].msg = "error" ]
    /\ UNCHANGED << inventory, part_prices, ret, ui, caching >>

\* Mutant: a failing inventory insert rolls the parts row back.
InsertInventory_rollback(s, raises) ==
    /\ sess[s].pc = "insert_inventory"
    /\ IF raises
       THEN /\ parts' = SelectSeq(parts, LAMBDA r : r.part_id # sess[s].part_id)
            /\ UNCHANGED inventory
            /\ sess' = [ sess EXCEPT ![s].pc = "form",
                                     ![s].calls = Append(@, "insert inventory"),
                                     ![s].msg = "error" ]
       ELSE /\ UNCHANGED parts
            /\ inventory' = Append(inventory, InventoryRow(sess[s].part_id, Some(0)))
            /\ sess' = [ sess EXCEPT ![s].pc = "form",
                                     ![s].calls = Append(@, "insert inventory"),
                                     ![s].msg = "success" ]
    /\ UNCHANGED << part_prices, next_part_id, ret, ui, caching >>

\* supabase().from_("inventory").insert(inventory_data).execute()
InsertInventory(s, raises) ==
    /\ sess[s].pc = "insert_inventory"
    /\ IF raises
       THEN /\ UNCHANGED inventory
            /\ sess' = [ sess EXCEPT ![s].pc = "form",
                                     ![s].calls = Append(@, "insert inventory"),
                                     ![s].msg = "error" ]
       ELSE /\ inventory' = Append(inventory, InventoryRow(sess[s].part_id, Some(0)))
            /\ sess' = [ sess EXCEPT ![s].pc = "form",
                                     ![s].calls = Append(@, "insert inventory"),
                                     ![s].msg = "success" ]
    /\ UNCHANGED << parts, part_prices, next_part_id, ret, ui, caching >>

Init ==
    /\ parts = << >>
    /\ inventory = << >>
    /\ part_prices = << >>
    /\ next_part_id = 1
    /\ ret = NoCall
    /\ sess = [ s \in Sessions |-> IdleSession ]
    /\ InitUi
    /\ InitCaching

Next ==
    \/ \E s \in Sessions, part_code \in CodeInputs, part_name \in NameInputs,
          raises \in BOOLEAN : Submit(s, part_code, part_name, FormStatus[1], raises)
    \/ \E s \in Sessions, outcome \in { "ok", "empty", "raises" } :
          InsertPart(s, outcome)
    \/ \E s \in Sessions, raises \in BOOLEAN : InsertInventory(s, raises)

Spec == Init /\ [][Next]_vars

\* The codes of the rows of the parts table.
ExistingCodes == { parts[i].part_code : i \in DOMAIN parts }

HasInsert(calls) ==
    \E k \in DOMAIN calls : calls[k] \in { "insert parts", "insert inventory" }

\* C8: a submission of the add-part form with a part code that already
\* exists in parts is rejected with an error, makes no insert call, and
\* leaves parts and inventory unchanged.
C8_DuplicateRejected ==
    [][ \A s \in Sessions :
          (/\ sess[s].pc = "form" /\ sess'[s] # sess[s]
           /\ sess'[s].part_code \in ExistingCodes)
          => /\ sess'[s].pc = "form"
             /\ sess'[s].msg \in { "duplicate", "name_required", "error" }
             /\ ~HasInsert(sess'[s].calls)
             /\ parts' = parts /\ inventory' = inventory ]_vars

\* C8 witness: a session was told that its code is in use, the code being
\* that of a row of parts, after the duplicate check alone.
C8_Witness ==
    \E s \in Sessions :
        /\ sess[s].msg = "duplicate"
        /\ sess[s].part_code \in ExistingCodes
        /\ sess[s].calls = << "select parts" >>
        /\ sess[s].pc = "form"

\* C9: no two rows of the parts table carry the same part code.
C9_CodesUnique ==
    \A i, j \in DOMAIN parts : parts[i].part_code = parts[j].part_code => i = j

\* The inventory rows of a part.
InventoryRowsOf(id) == { k \in DOMAIN inventory : inventory[k].part_id = id }

\* C19: once every add-part submission has run to its end, every row of
\* parts has exactly one inventory row with its part_id.
C19_OneInventoryRowPerPart ==
    (\A s \in DOMAIN sess : sess[s].pc = "form") =>
        \A i \in DOMAIN parts : Cardinality(InventoryRowsOf(parts[i].part_id)) = 1

\* C20: when the insert into parts succeeded and the following insert into
\* inventory fails, the parts table is left as it is, the new part stays in
\* it with no inventory row, and the session is shown an error and not the
\* success message.
C20_NoRollback ==
    [][ \A s \in Sessions :
          (/\ sess[s].pc = "insert_inventory" /\ sess'[s].pc = "form"
           /\ inventory' = inventory)
          => /\ parts' = parts
             /\ \E i \in DOMAIN parts' : parts'[i].part_id = sess[s].part_id
             /\ \A k \in DOMAIN inventory' : inventory'[k].part_id # sess[s].part_id
             /\ sess'[s].msg = "error" ]_vars

\* C20 witness: a session whose handler ended with a failed inventory insert;
\* its part is in parts, has no inventory row, and the session sees an error.
C20_Witness ==
    \E s \in Sessions :
        /\ sess[s].pc = "form" /\ sess[s].msg = "error"
        /\ sess[s].calls = << "select parts", "insert parts", "insert inventory" >>
        /\ \E i \in DOMAIN parts : parts[i].part_id = sess[s].part_id
        /\ InventoryRowsOf(sess[s].part_id) = {}

\* ------------------------------------------------------- the parts pages
\* One browser session on the add-part form, the part details page and the
\* add-supplier form.  A user event and the script run it triggers are one
\* action; the session shows one page at a time.
SupplierRow(id, code) == [ supplier_id |-> id, supplier_code |-> code ]

\* The status selections tried: the first option and the required status
\* that inventory.py's status table does not know.
StatusInputs == { "NEW", "OLDER" }

\* Mutant: the quantity field accepts a value below 0.
QuantityInputs_signed == (0 - 1)..MaxQuantity

\* st.number_input(..., min_value=0, value=current_stock)
QuantityInputs == 0..MaxQuantity

\* The add-part form is on screen: the other pages hold no widget state.
OnAddPart == supplier_form = NoForm /\ page = NoPage
OnSuppliers == sess[1] = IdleSession /\ page = NoPage
OnDetails == sess[1] = IdleSession /\ supplier_form = NoForm

AddPartSubmit ==
    /\ OnAddPart
    /\ \E part_code \in CodeInputs, part_name \in NameInputs, fails \in BOOLEAN,
          raises \in BOOLEAN :
         \E status \in status_options(fails) \cap StatusInputs :
            Submit(1, part_code, part_name, status, raises)

AddPartInsert == \E outcome \in { "ok", "empty", "raises" } : InsertPart(1, outcome)

AddPartInventory == \E raises \in BOOLEAN : InsertInventory(1, raises)

\* show_suppliers_add's submit handler.  raises says that the duplicate
\* check query raises, outcome what the insert does: "ok", "empty" (no row
\* returned) or "raises".
SubmitSupplier(supplier_code, supplier_name, raises, outcome) ==
    LET form == [ NoForm EXCEPT !.supplier_code = supplier_code ]
        duplicate_check ==
            SelectSeq(suppliers, LAMBDA r : r.supplier_code = supplier_code)
    IN /\ OnSuppliers
       /\ IF supplier_code = << >>
          THEN /\ supplier_form' = [ form EXCEPT !.msg = "code_required" ]
               /\ UNCHANGED suppliers
          ELSE IF supplier_name = ""
          THEN /\ supplier_form' = [ form EXCEPT !.msg = "name_required" ]
               /\ UNCHANGED suppliers
          ELSE IF raises
          THEN /\ supplier_form' = [ form EXCEPT !.calls = << "select suppliers" >>,
                                                 !.msg = "error" ]
               /\ UNCHANGED suppliers
          ELSE IF duplicate_check # << >>
          THEN /\ supplier_form' = [ form EXCEPT !.calls = << "select suppliers" >>,
                                                 !.msg = "duplicate" ]
               /\ UNCHANGED suppliers
          ELSE /\ Len(suppliers) < MaxRows
               /\ supplier_form' =
                    [ form EXCEPT !.calls = << "select suppliers", "insert suppliers" >>,
                                  !.msg = IF outcome = "ok" THEN "success" ELSE "error" ]
               /\ suppliers' =
                    IF outcome = "ok"
                    THEN Append(suppliers,
                                SupplierRow(Len(suppliers) + 1, supplier_code))
                    ELSE suppliers
       /\ UNCHANGED << backend, ret, sess, page, session_state, caching >>

\* The first inventory row's quantity of the selected part, 0 without a row.
current_stock(selected_id) ==
    LET rows == SelectSeq(inventory, LAMBDA r : r.part_id = selected_id)
    IN IF rows = << >> THEN 0 ELSE OrZero(rows[1].current_quantity)

\* update_part(selected_id, update_data): the parts table with the row's
\* status replaced.
update_part(selected_id, status) ==
    [ i \in DOMAIN parts |->
        IF parts[i].part_id = selected_id
        THEN [ parts[i] EXCEPT !.status = Some(status) ]
        ELSE parts[i] ]

\* update_inventory(selected_id, current_quantity): the inventory table with
\* the quantity of the part's rows replaced.
update_inventory(selected_id, current_quantity) ==
    [ k \in DOMAIN inventory |->
        IF inventory[k].part_id = selected_id
        THEN [ inventory[k] EXCEPT !.current_quantity = Some(current_quantity) ]
        ELSE inventory[k] ]

\* A script run of the details page in which the delete button reads false:
\* the confirmation checkbox is not rendered and its widget state is dropped.
WithoutDeleteButton(p) ==
    [ p EXCEPT !.confirm_shown = FALSE, !.delete_confirm = FALSE,
               !.ticked = FALSE, !.calls = << >>, !.msg = "" ]

\* st.selectbox of the part: choosing a part, or the placeholder (0).
SelectPart(id) ==
    /\ OnDetails
    /\ id \in PartIdSet \cup { 0 }
    /\ page' = [ WithoutDeleteButton(page) EXCEPT
                   !.selected_id = id,
                   !.edit_mode = IF id = 0 THEN FALSE ELSE page.edit_mode ]
    /\ UNCHANGED << backend, ret, sess, suppliers, supplier_form, session_state,
                    caching >>

\* st.checkbox of the edit mode.
ToggleEditMode ==
    /\ OnDetails
    /\ page.selected_id \in PartIdSet
    /\ page' = [ WithoutDeleteButton(page) EXCEPT !.edit_mode = ~page.edit_mode ]
    /\ UNCHANGED << backend, ret, sess, suppliers, supplier_form, session_state,
                    caching >>

\* The save button of the edit form.  part_outcome is what update_part does:
\* "ok", "fail" (success false) or "raises"; inv_ok that update_inventory
\* writes.
SaveEdit(status, current_quantity, part_outcome, inv_ok) ==
    LET selected_id == page.selected_id
        edits       == current_quantity # current_stock(selected_id)
    IN /\ OnDetails
       /\ selected_id \in PartIdSet /\ page.edit_mode
       /\ parts' = IF part_outcome = "ok" THEN update_part(selected_id, status)
                   ELSE parts
       /\ inventory' = IF part_outcome # "raises" /\ edits /\ inv_ok
                       THEN update_inventory(selected_id, current_quantity)
                       ELSE inventory
       /\ page' = [ WithoutDeleteButton(page) EXCEPT
                      !.calls = IF part_outcome # "raises" /\ edits
                                THEN << "update_part", "update_inventory" >>
                                ELSE << "update_part" >>,
                      !.msg = IF part_outcome = "ok" THEN "success" ELSE "error" ]
       /\ UNCHANGED << part_prices, next_part_id, ret, sess, suppliers,
                       supplier_form, session_state, caching >>

\* A click of the delete button: the script run in which the button reads
\* true.  The checkbox is rendered, with the widget state it has when it was
\* on screen in the run before and unticked otherwise; the delete is issued
\* when it reads true.  raises says that the delete call raises.
PressDelete(raises) ==
    LET selected_id    == page.selected_id
        delete_confirm == page.confirm_shown /\ page.delete_confirm
    IN /\ OnDetails
       /\ selected_id \in PartIdSet /\ page.edit_mode
       /\ parts' = IF delete_confirm /\ ~raises
                   THEN SelectSeq(parts, LAMBDA r : r.part_id # selected_id)
                   ELSE parts
       /\ page' = [ page EXCEPT
                      !.confirm_shown = TRUE,
                      !.delete_confirm = delete_confirm,
                      !.ticked = FALSE,
                      !.calls = IF delete_confirm THEN << "delete parts" >> ELSE << >>,
                      !.msg = IF ~delete_confirm THEN ""
                              ELSE IF raises THEN "error" ELSE "success" ]
       /\ UNCHANGED << inventory, part_prices, next_part_id, ret, sess, suppliers,
                       supplier_form, session_state, caching >>

\* A tick of the confirmation checkbox, which is on screen: the script runs
\* again, and in this run the delete button reads false.
TickConfirm ==
    /\ OnDetails
    /\ page.confirm_shown /\ ~page.delete_confirm
    /\ page' = [ WithoutDeleteButton(page) EXCEPT !.ticked = TRUE ]
    /\ UNCHANGED << backend, ret, sess, suppliers, supplier_form, session_state,
                    caching >>

\* A menu button: another page is shown, and the widgets of the page left
\* are gone.
Navigate ==
    /\ sess[1].pc = "form"
    /\ << sess[1], supplier_form, page >> # << IdleSession, NoForm, NoPage >>
    /\ sess' = [ sess EXCEPT ![1] = IdleSession ]
    /\ supplier_form' = NoForm
    /\ page' = NoPage
    /\ UNCHANGED << backend, ret, suppliers, session_state, caching >>

InitParts ==
    /\ parts = << >>
    /\ inventory = << >>
    /\ part_prices = << >>
    /\ next_part_id = 1
    /\ ret = NoCall
    /\ sess = << IdleSession >>
    /\ InitUi
    /\ InitCaching

NextParts ==
    \/ AddPartSubmit
    \/ AddPartInsert
    \/ AddPartInventory
    \/ \E supplier_code \in CodeInputs, supplier_name \in NameInputs,
          raises \in BOOLEAN, outcome \in { "ok", "empty", "raises" } :
          SubmitSupplier(supplier_code, supplier_name, raises, outcome)
    \/ \E id \in 0..MaxRows : SelectPart(id)
    \/ ToggleEditMode
    \/ \E fails \in BOOLEAN, current_quantity \in QuantityInputs,
          part_outcome \in { "ok", "fail", "raises" }, inv_ok \in BOOLEAN :
          \E status \in status_options(fails) \cap StatusInputs :
             SaveEdit(status, current_quantity, part_outcome, inv_ok)
    \/ \E raises \in BOOLEAN : PressDelete(raises)
    \/ TickConfirm
    \/ Navigate

SpecParts == InitParts /\ [][NextParts]_vars

\* C13: after any sequence of part creations and edits of the current
\* quantity through the parts pages, every inventory row's current_quantity
\* is an integer not below 0.
C13_QuantityNonNegative ==
    \A k \in DOMAIN inventory :
        /\ inventory[k].current_quantity # None
        /\ inventory[k].current_quantity[1] \in Nat

\* C13 witness: the edit form has just written a quantity above 0 to one
\* part's row, and the row of another, newly created part holds 0.
C13_Witness ==
    /\ page.msg = "success"
    /\ page.calls = << "update_part", "update_inventory" >>
    /\ \E k \in DOMAIN inventory :
          /\ inventory[k].part_id = page.selected_id
          /\ inventory[k].current_quantity = Some(MaxQuantity)
    /\ \E k \in DOMAIN inventory :
          /\ inventory[k].part_id # page.selected_id
          /\ inventory[k].current_quantity = Some(0)

\* The messages of a failed validation.
RequiredMissing == { "code_required", "name_required" }
ValidationErrors == RequiredMissing \cup { "duplicate" }

\* C16 as stated: when an add-part or add-supplier submission fails
\* validation, a missing required field or a duplicate code, the error is
\* shown before the submit handler made any backend call.
C16_ErrorBeforeAnyCall ==
    /\ sess[1].msg \in ValidationErrors => sess[1].calls = << >>
    /\ supplier_form.msg \in ValidationErrors => supplier_form.calls = << >>

\* C16 amended: a submission with a missing required field is rejected before
\* the submit handler made any backend call; a submission with a duplicate
\* code is rejected after the handler's duplicate check query alone, before
\* any insert.
C16_ErrorBeforeInsert ==
    /\ sess[1].part_code = << >> /\ sess[1].msg # "" => sess[1].msg = "code_required"
    /\ sess[1].msg \in RequiredMissing => sess[1].calls = << >>
    /\ sess[1].msg = "duplicate" => sess[1].calls = << "select parts" >>
    /\ supplier_form.supplier_code = << >> /\ supplier_form.msg # ""
          => supplier_form.msg = "code_required"
    /\ supplier_form.msg \in RequiredMissing => supplier_form.calls = << >>
    /\ supplier_form.msg = "duplicate"
          => supplier_form.calls = << "select suppliers" >>

\* C16 witness: the add-supplier form rejected a code that a row of
\* suppliers carries, after its duplicate check query, with a part in the
\* parts table.
C16_Witness ==
    /\ supplier_form.msg = "duplicate"
    /\ supplier_form.calls = << "select suppliers" >>
    /\ \E i \in DOMAIN suppliers :
          suppliers[i].supplier_code = supplier_form.supplier_code
    /\ parts # << >>

\* C17: every row of parts written through the add-part form or the edit
\* form has a status among NEW, OLD, REPAIR and NG.
C17_StatusInEnumeration ==
    \A i \in DOMAIN parts :
        \E k \in DOMAIN DefaultStatuses : parts[i].status = Some(DefaultStatuses[k])

\* C18: after the user pressed the delete button of the part details page
\* in edit mode and then ticked the confirmation checkbox, the script run
\* that follows has issued the delete call for the selected part.
C18_DeleteIssuedOnConfirm ==
    page.ticked => page.calls = << "delete parts" >>

\* ------------------------------------------------- login and sidebar menu
\* One browser session of app.py: the login form, the logout button and the
\* sidebar menu.  A user event and the script run it triggers are one action.

\* The keys of config.PAGES, the standard pages: those main() dispatches to a
\* page module.
PAGES ==
    << "dashboard", "parts", "inventory", "inbound", "outbound", "suppliers",
       "reports" >>

admin_pages == << "admin_management", "user_management", "supabase_settings" >> \o PAGES

\* bcrypt: the stored hash of a password, and checkpw.
Hash(password) == << "bcrypt", password >>
checkpw(password, stored_password) == stored_password = Hash(password)

\* username.lower() on the user names typed.
Lower(username) == IF username = "ROOT@eqms" THEN "root@eqms" ELSE username

\* The credential sources: the rows of the users table, the system
\* administrator of the environment, and the usernames of auth.yaml.
UserRow(id, email, username, password, role, is_active) ==
    [ user_id |-> id, email |-> email, username |-> username,
      password_hash |-> Hash(password), role |-> role, is_active |-> is_active ]

users ==
    << UserRow("u1", "kim@eqms", "kim", "k1", Some("system_admin"), TRUE),
       UserRow("u2", "lee@eqms", "lee", "l1", Some("admin"), TRUE),
       UserRow("u3", "park@eqms", "park", "p1", Some("user"), TRUE),
       UserRow("u4", "choi@eqms", "choi", "c1", None, TRUE),
       UserRow("u5", "root@eqms", "han", "h1", Some("admin"), FALSE) >>

SYSTEM_ADMIN_EMAIL == "root@eqms"
SYSTEM_ADMIN_PASSWORD == "r0"

auth_config ==
    [ u \in { "admin", "user", "guest" } |->
        CASE u = "admin" -> [ password |-> Hash("admin"), role |-> Some("admin") ]
          [] u = "user"  -> [ password |-> Hash("user"), role |-> Some("user") ]
          [] OTHER       -> [ password |-> Hash("guest"), role |-> Some("viewer") ] ]

UsernameInputs ==
    { "kim@eqms", "lee", "park", "choi", "han", "root@eqms", "ROOT@eqms",
      "admin", "guest", "nobody" }
PasswordInputs == { "k1", "l1", "p1", "c1", "h1", "r0", "admin", "guest", "bad" }

\* user_data.get('role', 'user')
RoleOr(role) == IF role = None THEN Some("user") ELSE role

UserData(user_id, username, role) ==
    Some([ user_id |-> user_id, username |-> username, role |-> role ])

LoggedIn(state, username, role) ==
    [ state EXCEPT !.authenticated = TRUE, !.username = Some(username),
                   !.user_role = role ]

\* Mutant: the session is marked as logged in before the account's
\* is_active flag is looked at.
check_login_credentials_early(username, password, raises) ==
    LET by_email    == SelectSeq(users, LAMBDA r : r.email = username)
        by_username == SelectSeq(users, LAMBDA r : r.username = username)
        response    == IF by_email # << >> THEN by_email ELSE by_username
        in_table    == ~raises /\ response # << >>
                          /\ checkpw(password, response[1].password_hash)
    IN IF in_table /\ ~response[1].is_active
       THEN [ user_data |-> None,
              state |-> LoggedIn(session_state, response[1].username,
                                 response[1].role) ]
       ELSE IF in_table
       THEN [ user_data |-> UserData(response[1].user_id, response[1].username,
                                     response[1].role),
              state |-> LoggedIn(session_state, response[1].username,
                                 response[1].role) ]
       ELSE IF Lower(username) = Lower(SYSTEM_ADMIN_EMAIL)
                 /\ password = SYSTEM_ADMIN_PASSWORD
       THEN [ user_data |-> UserData("admin", username, Some("system_admin")),
              state |-> LoggedIn(session_state, username, Some("system_admin")) ]
       ELSE IF username \in DOMAIN auth_config
                 /\ checkpw(password, auth_config[username].password)
       THEN [ user_data |-> UserData(username, username,
                                     RoleOr(auth_config[username].role)),
              state |-> LoggedIn(session_state, username,
                                 RoleOr(auth_config[username].role)) ]
       ELSE [ user_data |-> None, state |-> session_state ]

\* check_login_credentials(username, password): the value returned (None or
\* the user data) and the session state it leaves.  raises says that the
\* lookup in the users table raises.
check_login_credentials(username, password, raises) ==
    LET by_email    == SelectSeq(users, LAMBDA r : r.email = username)
        by_username == SelectSeq(users, LAMBDA r : r.username = username)
        response    == IF by_email # << >> THEN by_email ELSE by_username
        in_table    == ~raises /\ response # << >>
                          /\ checkpw(password, response[1].password_hash)
    IN IF in_table /\ ~response[1].is_active
       THEN [ user_data |-> None, state |-> session_state ]
       ELSE IF in_table
       THEN [ user_data |-> UserData(response[1].user_id, response[1].username,
                                     response[1].role),
              state |-> LoggedIn(session_state, response[1].username,
                                 response[1].role) ]
       ELSE IF Lower(username) = Lower(SYSTEM_ADMIN_EMAIL)
                 /\ password = SYSTEM_ADMIN_PASSWORD
       THEN [ user_data |-> UserData("admin", username, Some("system_admin")),
              state |-> LoggedIn(session_state, username, Some("system_admin")) ]
       ELSE IF username \in DOMAIN auth_config
                 /\ checkpw(password, auth_config[username].password)
       THEN [ user_data |-> UserData(username, username,
                                     RoleOr(auth_config[username].role)),
              state |-> LoggedIn(session_state, username,
                                 RoleOr(auth_config[username].role)) ]
       ELSE [ user_data |-> None, state |-> session_state ]

check_authentication == session_state.authenticated

get_user_role == session_state.user_role

\* Mutant: an admin is shown every entry of admin_pages.
display_pages_admin_all ==
    IF ~check_authentication THEN << >>
    ELSE IF get_user_role \in { Some("system_admin"), Some("admin") } THEN admin_pages
    ELSE PAGES

\* The keys of the menu buttons the sidebar renders, in their order.
display_pages ==
    IF ~check_authentication THEN << >>
    ELSE IF get_user_role = Some("system_admin") THEN admin_pages
    ELSE IF get_user_role = Some("admin")
    THEN SelectSeq(admin_pages,
                   LAMBDA k : k # "admin_management" /\ k # "supabase_settings")
    ELSE PAGES

\* The page main() shows below the sidebar: the login form while the session
\* is not authenticated, otherwise the page function of the selected menu.
main_page ==
    IF ~check_authentication THEN "login_form"
    ELSE IF session_state.selected_menu = None THEN "dashboard"
    ELSE session_state.selected_menu[1]

\* The login form's submit button.  After a successful login the script
\* runs again and sets the selected menu to the dashboard if there is none.
\* ret keeps the call of check_login_credentials: what was typed, the value
\* returned and the session state before the call.
Login(username, password, raises) ==
    LET result == check_login_credentials(username, password, raises)
    IN /\ ~check_authentication
       /\ session_state' =
            IF result.user_data # None
            THEN [ result.state EXCEPT
                     !.authenticated = TRUE,
                     !.username = Some(username),
                     !.user_data = result.user_data,
                     !.selected_menu = IF @ = None THEN Some("dashboard") ELSE @ ]
            ELSE result.state
       /\ ret' = [ op |-> "check_login_credentials", username |-> username,
                   password |-> password, raises |-> raises,
                   value |-> result.user_data, before |-> session_state ]
       /\ UNCHANGED << backend, sess, suppliers, supplier_form, page, caching >>

\* The logout button's on_click callback.
logout ==
    /\ check_authentication
    /\ session_state' = [ session_state EXCEPT !.authenticated = FALSE,
                                               !.username = None,
                                               !.user_role = None ]
    /\ ret' = NoCall
    /\ UNCHANGED << backend, sess, suppliers, supplier_form, page, caching >>

\* A click on one of the menu buttons the sidebar shows.
SelectMenu(key) ==
    /\ key \in Range(display_pages)
    /\ session_state' = [ session_state EXCEPT !.selected_menu = Some(key) ]
    /\ ret' = NoCall
    /\ UNCHANGED << backend, sess, suppliers, supplier_form, page, caching >>

InitAuth ==
    /\ parts = << >>
    /\ inventory = << >>
    /\ part_prices = << >>
    /\ next_part_id = 1
    /\ ret = NoCall
    /\ sess = NoSessions
    /\ InitUi
    /\ InitCaching

NextAuth ==
    \/ \E username \in UsernameInputs, password \in PasswordInputs,
          raises \in BOOLEAN : Login(username, password, raises)
    \/ logout
    \/ \E key \in Range(admin_pages) : SelectMenu(key)

SpecAuth == InitAuth /\ [][NextAuth]_vars

\* The role of the account that is logged in.
CurrentRole == RoleOr(session_state.user_data[1].role)

AdminOnly == { "admin_management", "user_management", "supabase_settings" }

\* C15: the sidebar menu shows exactly the entries allowed for the role of
\* the account logged in: a system_admin sees the three administration
\* entries and every standard page, an admin sees user_management and every
\* standard page, any other role sees the standard pages alone, and a
\* session that is not authenticated sees no entry.
C15_MenuByRole ==
    LET shown == Range(display_pages)
    IN /\ Len(display_pages) = Cardinality(shown)
       /\ IF ~session_state.authenticated THEN shown = {}
          ELSE IF CurrentRole = Some("system_admin")
          THEN shown = AdminOnly \cup Range(PAGES)
          ELSE IF CurrentRole = Some("admin")
          THEN shown = { "user_management" } \cup Range(PAGES)
          ELSE shown = Range(PAGES)

\* C15 witness: an admin is logged in after a system_admin used the
\* session, and the menu shows user_management without admin_management.
C15_Witness ==
    /\ session_state.authenticated
    /\ CurrentRole = Some("admin")
    /\ session_state.selected_menu = Some("admin_management")
    /\ "user_management" \in Range(display_pages)
    /\ "admin_management" \notin Range(display_pages)

\* C24: an admin-only page (admin_management, user_management,
\* supabase_settings) is shown only while the menu of the current role has
\* its entry, across any sequence of logins, menu clicks and logouts of one
\* browser session.
C24_AdminPageNeedsRole ==
    main_page \in AdminOnly => main_page \in Range(display_pages)

\* The three session values check_login_credentials may set.
LoginValues(state) == << state.authenticated, state.username, state.user_role >>

\* C28: when check_login_credentials returns None (unknown user, wrong
\* password, inactive account, failing lookup) the session's authenticated,
\* username and user_role are what they were before the call.
C28_NoneLeavesSession ==
    (ret.op = "check_login_credentials" /\ ret.value = None) =>
        LoginValues(session_state) = LoginValues(ret.before)

\* C28 witness: a session used before, in which the password of the
\* inactive account has just been typed and refused.
C28_Witness ==
    /\ ret.op = "check_login_credentials" /\ ret.value = None
    /\ ret.username = "han" /\ ret.password = "h1" /\ ~ret.raises
    /\ session_state.user_data # None
    /\ ~session_state.authenticated

\* The users row the typed name finds: by email, otherwise by username.
MatchedRows(username) ==
    LET by_email == SelectSeq(users, LAMBDA r : r.email = username)
    IN IF by_email # << >> THEN by_email
       ELSE SelectSeq(users, LAMBDA r : r.username = username)

\* C29: when the users row found for the typed name is inactive,
\* check_login_credentials returns None and the session is not
\* authenticated, whichever credential source the password matches.
C29_InactiveNeverLogsIn ==
    (/\ ret.op = "check_login_credentials" /\ ~ret.raises
     /\ MatchedRows(ret.username) # << >>
     /\ ~MatchedRows(ret.username)[1].is_active) =>
        ret.value = None /\ ~session_state.authenticated

\* ------------------------------------------------- the cached inventory page
\* st.cache_data: one entry per function and argument list, holding the
\* value returned and its age; an entry is used while its age is below the
\* function's ttl.
ttl(fn) == IF fn = "get_categories" THEN ttl_categories ELSE ttl_data

Key(fn, args) == [ fn |-> fn, args |-> args ]

\* The entry found for key, None without one.
EntryOf(c, key) == IF key \in DOMAIN c THEN Some(c[key]) ELSE None

IsFresh(entry, fn) == entry # None /\ entry[1].age < ttl(fn)

\* Mutant: the result of a call that met a failing query is not stored.
Call_skip_failed(c, fn, args, fail, computed) ==
    LET key   == Key(fn, args)
        entry == EntryOf(c, key)
        hit   == IsFresh(entry, fn)
    IN [ cache |-> IF hit \/ fail THEN c
                   ELSE DictPut(c, key, [ value |-> computed.value, age |-> 0,
                                          fail |-> fail ]),
         rec   |-> [ fn |-> fn, args |-> args, fail |-> fail, entry |-> entry,
                     value   |-> IF hit THEN entry[1].value ELSE computed.value,
                     queries |-> IF hit THEN 0 ELSE computed.queries ] ]

\* A call of the cached function fn with args: on a fresh entry its value,
\* and no query; otherwise the value computed (computed.value, with
\* computed.queries backend queries), which is stored.  rec is the record of
\* the call: the entry found, the value returned, the queries issued.  An
\* entry remembers in fail whether the call that computed it met a failing
\* query.
Call(c, fn, args, fail, computed) ==
    LET key   == Key(fn, args)
        entry == EntryOf(c, key)
        hit   == IsFresh(entry, fn)
    IN [ cache |-> IF hit THEN c
                   ELSE DictPut(c, key, [ value |-> computed.value, age |-> 0,
                                          fail |-> fail ]),
         rec   |-> [ fn |-> fn, args |-> args, fail |-> fail, entry |-> entry,
                     value   |-> IF hit THEN entry[1].value ELSE computed.value,
                     queries |-> IF hit THEN 0 ELSE computed.queries ] ]

\* get_categories(): the literal all followed by the sorted categories of
\* parts without duplicates, written as the set of its elements.
get_categories(raises) ==
    IF raises THEN { "all" }
    ELSE { "all" } \cup
         { parts[i].category[1] :
             i \in { j \in DOMAIN parts : parts[j].category \notin { None, Some("") } } }

\* get_parts(search_code, search_name, search_category, name_display) with no
\* code and no name searched: the rows of parts, of one category unless all.
get_parts(search_category, raises) ==
    IF raises THEN << >>
    ELSE IF search_category = "all" THEN parts
    ELSE SelectSeq(parts, LAMBDA r : r.category = Some(search_category))

\* get_inventory_analysis_data() behind its cache entry; its two fetcher
\* calls go through the fetchers' own cache entries.
AnalysisCall(c) ==
    LET key   == Key("get_inventory_analysis_data", << >>)
        entry == EntryOf(c, key)
        hit   == IsFresh(entry, key.fn)
        ids   == category_pass(parts).all_part_ids
        inv   == LET fetched == get_inventory_data(ids, {})
                 IN Call(c, "get_inventory_data", ids, FALSE,
                         [ value |-> fetched.data, queries |-> Len(fetched.queries) ])
        price == LET fetched == get_price_data(ids, {})
                 IN Call(inv.cache, "get_price_data", ids, FALSE,
                         [ value |-> fetched.data, queries |-> Len(fetched.queries) ])
        value == analysis_of(inv.rec.value, price.rec.value)
    IN [ cache |-> IF hit THEN c
                   ELSE DictPut(price.cache, key, [ value |-> value, age |-> 0,
                                                    fail |-> FALSE ]),
         rec   |-> [ fn |-> key.fn, args |-> key.args, fail |-> FALSE,
                     entry |-> entry,
                     value   |-> IF hit THEN entry[1].value ELSE value,
                     queries |-> IF hit THEN 0
                                 ELSE 3 + inv.rec.queries + price.rec.queries ] ]

\* The categories the search form's selectbox is tried with.
SearchInputs == { "all", "filter" }

\* show(): one script run of the inventory page.  search says that the
\* search button was clicked, with search_category selected; failParts that
\* the parts query of get_low_stock_items raises.  ret keeps the record of
\* every call of a cached function the run made, in their order, the tables
\* as the run found them, and what the shortage tab and the analysis tab
\* show: the rows of the shortage table or the message that every part
\* meets its minimum stock, and the low_stock_parts figure.
Render(search, search_category, failParts) ==
    LET categories == Call(cache, "get_categories", << >>, FALSE,
                           [ value |-> get_categories(FALSE), queries |-> 1 ])
        parts_data == Call(categories.cache, "get_parts", << search_category >>, FALSE,
                           [ value |-> get_parts(search_category, FALSE),
                             queries |-> 1 ])
        part_ids   == PartIds(parts_data.rec.value)
        inv        == LET fetched == get_inventory_data(part_ids, {})
                      IN Call(parts_data.cache, "get_inventory_data", part_ids, FALSE,
                              [ value |-> fetched.data,
                                queries |-> Len(fetched.queries) ])
        price      == LET fetched == get_price_data(part_ids, {})
                      IN Call(inv.cache, "get_price_data", part_ids, FALSE,
                              [ value |-> fetched.data,
                                queries |-> Len(fetched.queries) ])
        found      == search /\ parts_data.rec.value # << >>
        searched   == IF ~search THEN categories.cache
                      ELSE IF found THEN price.cache ELSE parts_data.cache
        low_stock  == LET computed == get_low_stock_items(failParts, {})
                      IN Call(searched, "get_low_stock_items", << >>, failParts,
                              [ value |-> computed.items,
                                queries |-> computed.queries ])
        analysis   == AnalysisCall(low_stock.cache)
    IN /\ search_category \in categories.rec.value
       /\ cache' = analysis.cache
       /\ ret' = [ op |-> "show", tables |-> backend,
                   low_stock_tab |->
                       IF low_stock.rec.value = << >>
                       THEN [ msg |-> "all_meet_minimum", rows |-> 0 ]
                       ELSE [ msg |-> "", rows |-> Len(low_stock.rec.value) ],
                   analysis_tab |->
                       IF analysis.rec.value.none THEN None
                       ELSE Some(analysis.rec.value.summary_data.low_stock_parts),
                   calls |-> << categories.rec >>
                             \o (IF search THEN << parts_data.rec >> ELSE << >>)
                             \o (IF found THEN << inv.rec, price.rec >> ELSE << >>)
                             \o << low_stock.rec, analysis.rec >> ]
       /\ UNCHANGED << backend, sess, ui, now >>

\* The steps of the clock, and the number of steps that lead to time t.
TickSteps == { ttl_data \div 2, ttl_categories - ttl_data }

TicksOf(t) ==
    t \div (ttl_categories - ttl_data)
       + (t % (ttl_categories - ttl_data)) \div (ttl_data \div 2)

\* Time passes: every entry ages, and an entry whose ttl is reached is
\* dropped.
Tick(d) ==
    /\ TicksOf(now) < MaxTicks
    /\ now' = now + d
    /\ cache' = [ key \in { k \in DOMAIN cache : cache[k].age + d < ttl(k.fn) } |->
                    [ cache[key] EXCEPT !.age = @ + d ] ]
    /\ ret' = NoCall
    /\ UNCHANGED << backend, sess, ui >>

\* The edit form writes a new quantity of a part.
WriteQuantity(part_id, current_quantity) ==
    /\ part_id \in PartIdSet
    /\ current_quantity # current_stock(part_id)
    /\ inventory' = update_inventory(part_id, current_quantity)
    /\ ret' = NoCall
    /\ UNCHANGED << parts, part_prices, next_part_id, sess, ui, caching >>

InitCache ==
    /\ parts = << PartRow(1, Code(1), Some("pump"), Some("NEW"), Some(2)) >>
    /\ inventory = << InventoryRow(1, Some(0)) >>
    /\ part_prices = << PriceRow(1, 1, Some(2), TRUE) >>
    /\ next_part_id = 2
    /\ ret = NoCall
    /\ sess = << IdleSession >>
    /\ InitUi
    /\ InitCaching

NextCache ==
    \/ \E search \in BOOLEAN, search_category \in SearchInputs :
          Render(search, search_category, FALSE)
    \/ \E d \in TickSteps : Tick(d)
    \/ \E current_quantity \in { 0, MaxQuantity } : WriteQuantity(1, current_quantity)
    \/ Submit(1, Code(2), "FILTER", FormStatus[1], FALSE)
    \/ InsertPart(1, "ok")
    \/ InsertInventory(1, FALSE)

SpecCache == InitCache /\ [][NextCache]_vars

\* The inventory page over a backend whose parts query may fail: renders
\* with and without a failing parts query of get_low_stock_items, quantity
\* edits and the clock, over a fixed list of parts.
NextOutage ==
    \/ \E search \in BOOLEAN, search_category \in SearchInputs,
          failParts \in BOOLEAN : Render(search, search_category, failParts)
    \/ \E d \in TickSteps : Tick(d)
    \/ \E current_quantity \in QuantityInputs : WriteQuantity(1, current_quantity)

SpecOutage == InitCache /\ [][NextOutage]_vars

\* What a function returns when it is computed from the backend tables.
Recomputed(call) ==
    CASE call.fn = "get_categories" -> get_categories(FALSE)
      [] call.fn = "get_inventory_data" -> get_inventory_data(call.args, {}).data
      [] call.fn = "get_price_data" -> get_price_data(call.args, {}).data
      [] call.fn = "get_low_stock_items" -> get_low_stock_items(call.fail, {}).items
      [] call.fn = "get_inventory_analysis_data" ->
            get_inventory_analysis_data(NoQueryFails)

CachedAggregations ==
    { "get_categories", "get_inventory_data", "get_price_data",
      "get_low_stock_items", "get_inventory_analysis_data" }

\* Every call recorded by the last run of show() is served from a fresh
\* entry without a query, or returns what the backend holds.
CachedOrRecomputed ==
    \A k \in DOMAIN ret.calls :
        LET call == ret.calls[k]
            limit == IF call.fn = "get_categories" THEN 60 * 60 ELSE 5 * 60
        IN call.fn \in CachedAggregations =>
             IF call.entry # None /\ call.entry[1].age < limit
             THEN call.value = call.entry[1].value /\ call.queries = 0
             ELSE call.value = Recomputed(call)

\* C14: a call of a cached aggregation function with the arguments of an
\* earlier call made less than the ttl ago (5 minutes, 1 hour for
\* get_categories) returns the earlier result and issues no backend query;
\* any other call returns the result computed from the backend.  Stated of
\* the calls of a run of show(), while the tables are as the run found them.
C14_CachedWithinTtlElseRecomputed ==
    (ret.op = "show" /\ ret.tables = backend) => CachedOrRecomputed

\* The call of get_low_stock_items in the last run of show().
LowStockCallOf(run) == run.calls[Len(run.calls) - 1]

\* C26: when the parts query of get_low_stock_items fails, the empty list it
\* returns is stored in the cache like any result: every further call within
\* the 5 minutes of the ttl returns the empty list without a backend query,
\* also when the backend answers again, and the shortage tab shows the
\* message that all parts meet their minimum stock.
C26_FailedResultCached ==
    ret.op = "show" =>
        LET call == LowStockCallOf(ret)
            key  == Key("get_low_stock_items", << >>)
        IN /\ (call.entry = None /\ call.fail) =>
                /\ call.value = << >>
                /\ key \in DOMAIN cache
                /\ cache[key].value = << >> /\ cache[key].age = 0
                /\ ret.low_stock_tab.msg = "all_meet_minimum"
           /\ (call.entry # None /\ call.entry[1].fail
                  /\ call.entry[1].age < 5 * 60) =>
                /\ call.value = << >>
                /\ call.queries = 0
                /\ ret.low_stock_tab.msg = "all_meet_minimum"

\* C26 witness: a run of show() whose parts query would succeed, over a
\* table with a part below its threshold, served the empty list that a
\* failed call stored earlier.
C26_Witness ==
    /\ ret.op = "show"
    /\ LowStockCallOf(ret).entry # None
    /\ LowStockCallOf(ret).entry[1].fail
    /\ LowStockCallOf(ret).entry[1].age > 0
    /\ ~LowStockCallOf(ret).fail
    /\ get_low_stock_items(FALSE, {}).items # << >>
    /\ ret.low_stock_tab.msg = "all_meet_minimum"

\* C27: in every run of show() the number of rows of the shortage tab equals
\* the low_stock_parts figure of the analysis tab, across quantity edits,
\* renders and cache expiries.
C27_TabsAgree ==
    (ret.op = "show" /\ ret.analysis_tab # None) =>
        ret.low_stock_tab.rows = ret.analysis_tab[1]

\* ------------------------------------------------- the price forms
\* st.number_input("danga", min_value=0): a whole number not below 0.
PriceInputs == 0..MaxQuantity

\* st.session_state without one of its keys: st.session_state.pop(key, None).
Pop(state, key) == [ k \in DOMAIN state \ { key } |-> state[k] ]

\* The record a price-table line leaves in the session for the edit form.
\* The key is read and removed by show_parts_details; it is written by no
\* code of parts.py, so the states that carry it are initial states.
EditInfo(price_id, unit_price, is_current) ==
    [ price_id |-> price_id, unit_price |-> unit_price,
      is_current |-> is_current ]

\* update_data with the checkbox written as it was ticked.
update_data_as_ticked(unit_price, is_current) ==
    [ unit_price |-> Some(unit_price), is_current |-> is_current ]

\* update_data of the edit-price form: the checkbox is_current is not used.
update_data(unit_price, is_current) ==
    [ unit_price |-> Some(unit_price), is_current |-> unit_price > 0 ]

\* The arguments of the add-price form's rpc call with the checkbox passed
\* as it was ticked.
rpc_args_as_ticked(part_id, supplier_id, unit_price, is_current) ==
    [ p_part_id |-> part_id, p_supplier_id |-> supplier_id,
      p_unit_price |-> unit_price, p_is_current |-> is_current ]

\* The arguments of the add-price form's rpc call: price_data["is_current"]
\* is overwritten and p_is_current computed from the price.
rpc_args(part_id, supplier_id, unit_price, is_current) ==
    [ p_part_id |-> part_id, p_supplier_id |-> supplier_id,
      p_unit_price |-> unit_price, p_is_current |-> unit_price > 0 ]

\* The database function insert_part_price: it stores its arguments as a
\* new row of part_prices.
insert_part_price(args) ==
    Append(part_prices,
           PriceRow(args.p_part_id, args.p_supplier_id,
                    Some(args.p_unit_price), args.p_is_current))

\* part_prices.update(data).eq("price_id", price_id): the price_id of a row
\* is its position in the table.
update_part_prices(data, price_id) ==
    [ k \in DOMAIN part_prices |->
        IF k = price_id
        THEN [ part_prices[k] EXCEPT !.unit_price = data.unit_price,
                                     !.is_current = data.is_current ]
        ELSE part_prices[k] ]

\* The edit form is drawn while the session carries edit_price_info;
\* int(edit_info.get('unit_price', 0)) raises on a null price and the form
\* is not drawn.
EditFormShown ==
    /\ page.selected_id # 0
    /\ "edit_price_info" \in DOMAIN session_state
    /\ session_state.edit_price_info.unit_price # None

\* The "edit price" button of the edit form, for the typed price and the
\* ticked checkbox; outcome "raises" is an exception of the update call.
SubmitEditPrice(unit_price, is_current, outcome) ==
    /\ EditFormShown
    /\ LET edit_info == session_state.edit_price_info
           data      == update_data(unit_price, is_current)
           matched   == IF outcome = "ok"
                        THEN { edit_info.price_id } \cap DOMAIN part_prices
                        ELSE {}
       IN /\ part_prices' = IF outcome = "ok"
                            THEN update_part_prices(data, edit_info.price_id)
                            ELSE part_prices
          /\ session_state' = IF matched # {}
                              THEN Pop(session_state, "edit_price_info")
                              ELSE session_state
          /\ ret' = [ op |-> "edit_price_form", ticked |-> is_current,
                      sent |-> [ unit_price |-> unit_price,
                                 is_current |-> data.is_current ],
                      written |-> matched,
                      msg |-> IF matched # {} THEN "updated" ELSE "error" ]
    /\ UNCHANGED << parts, inventory, next_part_id, sess, suppliers,
                    supplier_form, page, caching >>

\* The "cancel" button of the edit form.
CancelEditPrice ==
    /\ EditFormShown
    /\ session_state' = Pop(session_state, "edit_price_info")
    /\ ret' = [ op |-> "cancel_price_edit" ]
    /\ UNCHANGED << backend, sess, suppliers, supplier_form, page, caching >>

\* The "add price" button of the add form, drawn with its fields when the
\* session carries no edit_price_info and a supplier exists.  outcome "ok":
\* the rpc answers success; "rejected": it answers without success and
\* stores nothing; "raises": the call raises.
SubmitAddPrice(supplier, unit_price, is_current, outcome) ==
    /\ page.selected_id # 0
    /\ "edit_price_info" \notin DOMAIN session_state
    /\ supplier \in DOMAIN suppliers
    /\ Len(part_prices) <= MaxRows
    /\ LET args == rpc_args(page.selected_id, suppliers[supplier].supplier_id,
                            unit_price, is_current)
       IN /\ part_prices' = IF outcome = "ok" THEN insert_part_price(args)
                            ELSE part_prices
          /\ ret' = [ op |-> "add_price_form", ticked |-> is_current,
                      sent |-> [ unit_price |-> args.p_unit_price,
                                 is_current |-> args.p_is_current ],
                      written |-> IF outcome = "ok"
                                  THEN { Len(part_prices) + 1 } ELSE {},
                      msg |-> IF outcome = "ok" THEN "added" ELSE "error" ]
    /\ UNCHANGED << parts, inventory, next_part_id, sess, suppliers,
                    supplier_form, page, session_state, caching >>

\* The details page of part 1, with or without a supplier, over a price
\* table of at most one row, and a session with or without edit_price_info
\* (of the table's row, of a row that is gone, or with a null price).
InitPrices ==
    /\ parts = << PartRow(1, Code(1), Some("pump"), Some("NEW"), Some(0)) >>
    /\ inventory = << InventoryRow(1, Some(1)) >>
    /\ part_prices \in { << >>, << PriceRow(1, 1, Some(2), TRUE) >>,
                         << PriceRow(1, 1, Some(0), FALSE) >> }
    /\ next_part_id = 2
    /\ ret = NoCall
    /\ sess = << IdleSession >>
    /\ suppliers \in { << >>, << SupplierRow(1, Code(1)) >> }
    /\ supplier_form = NoForm
    /\ page = [ NoPage EXCEPT !.selected_id = 1 ]
    /\ session_state \in
         { NoSessionState } \cup
         { NoSessionState @@ ("edit_price_info" :> EditInfo(id, u, c)) :
             id \in 1..2, u \in { None, Some(0), Some(2) }, c \in BOOLEAN }
    /\ InitCaching

NextPrices ==
    \/ \E unit_price \in PriceInputs, is_current \in BOOLEAN,
          outcome \in { "ok", "raises" } :
          SubmitEditPrice(unit_price, is_current, outcome)
    \/ CancelEditPrice
    \/ \E supplier \in DOMAIN suppliers, unit_price \in PriceInputs,
          is_current \in BOOLEAN,
          outcome \in { "ok", "rejected", "raises" } :
          SubmitAddPrice(supplier, unit_price, is_current, outcome)

SpecPrices == InitPrices /\ [][NextPrices]_vars

\* The last submission was one of the two price forms.
IsPriceForm == ret.op \in { "add_price_form", "edit_price_form" }

\* C30: every part_prices row written by the add-price form or the
\* edit-price form is flagged current exactly when its unit price is above
\* 0, whatever was ticked in the is-current checkbox; no row these forms
\* wrote is current at a price of 0.
C30_CurrentIffPositive ==
    IsPriceForm =>
        /\ ret.sent.is_current <=> ret.sent.unit_price > 0
        /\ \A k \in ret.written :
              /\ k \in DOMAIN part_prices
              /\ part_prices[k].unit_price = Some(ret.sent.unit_price)
              /\ part_prices[k].is_current
                   <=> OrZero(part_prices[k].unit_price) > 0

\* C30 witness: the add form, submitted with the checkbox ticked and a price
\* of 0, stored a row that is not current.
C30_Witness ==
    /\ ret.op = "add_price_form"
    /\ ret.ticked
    /\ ret.written # {}
    /\ \A k \in ret.written :
          /\ part_prices[k].unit_price = Some(0)
          /\ ~part_prices[k].is_current

====
